---------------------------- MODULE Spec2Model ----------------------------
(***************************************************************************)
(* Model of the merge-downloader resolution engine:                        *)
(*   - FileDownloader.download_file   (mergedownloader/file_downloader.py) *)
(*   - MonthAccumParser.get_file      (raindownloader/inpeparser.py)       *)
(*   - Downloader.get_file/get_files/get_range                             *)
(*                                    (mergedownloader/downloader.py)      *)
(*   - the write of an artifact, dset.to_netcdf(local_target)              *)
(*                                    (mergedownloader/downloader.py)      *)
(*   - DateProcessor                  (mergedownloader/utils.py)           *)
(*   - StatsCalculator                (mergedownloader/stats_calculator.py)*)
(*   - FTPUtil, BaseParser.get_file   (mergedownloader/utils.py, parser.py)*)
(* Each component has its own specification (SpecFD, SpecMA, Spec, SpecPW, *)
(* SpecDP, SpecSC, SpecHF, SpecHD, SpecLT, SpecFTP, SpecTL) over its own   *)
(* group of variables; the other groups stay at their initial value.       *)
(***************************************************************************)
EXTENDS Integers, Sequences, FiniteSets, TLC

VARIABLES
    fd_pc,        \* download_file: "idle" | "loop" | "returned" | "raised"
    fd_retrials,  \* download_file: the retrials argument of the running call
    fd_attempt,   \* download_file: loop variable `attempt` of the next iteration
    fd_hist,      \* download_file: what download_fn did at each attempt so far
    fd_ret        \* download_file: value returned / exception raised

fd_vars == <<fd_pc, fd_retrials, fd_attempt, fd_hist, fd_ret>>

VARIABLES
    ma_date,      \* MonthAccumParser: the month <<year, month>> the artifact covers
    ma_file,      \* MonthAccumParser: the artifact at local_target (NoFile if absent)
    ma_now,       \* wall clock, in minutes since Epoch
    ma_ticks,     \* number of clock steps taken (bounded by MaxTicks)
    ma_call       \* MonthAccumParser: record of the last get_file call

ma_vars == <<ma_date, ma_file, ma_now, ma_ticks, ma_call>>

VARIABLES
    disk,         \* Downloader: the local files, path -> file
    clock,        \* wall clock, in minutes since Epoch
    ticks,        \* number of clock steps taken (bounded by MaxClockSteps)
    call,         \* Downloader: record of the call that has just returned
    focus,        \* the data type and keyword argument this session asks for
    _parsers,     \* Downloader: the data types of the `parsers` mapping it was built with
    stats_done    \* StatsCalculator: calc_monthly_avg_std_n(focus.n) has completed

eng_vars == <<disk, clock, ticks, call, focus, _parsers, stats_done>>

VARIABLES
    pw_pc,        \* to_netcdf: "idle" | "writing" | "returned" | "raised"
    pw_target,    \* to_netcdf: the file at local_target
    pw_version,   \* to_netcdf: number of the dataset being written (bounded by MaxWrites)
    pw_reads      \* what the concurrent readers of local_target found, in order

pw_vars == <<pw_pc, pw_target, pw_version, pw_reads>>

VARIABLES
    dp_now,       \* DateProcessor: wall clock, in minutes since Epoch
    dp_call       \* DateProcessor: record of the call that has just returned

dp_vars == <<dp_now, dp_call>>

VARIABLES
    hf_mode,      \* FileDownloader: the download mode it was built with
    hf_tz,        \* the offset from UTC of the local zone, in minutes
    hf_local,     \* _download_http_file: the file at local_path
    hf_remote,    \* the remote file: its Last-Modified time (minutes, UTC) and version
    hf_now,       \* wall clock, in minutes since Epoch (UTC)
    hf_call       \* _download_http_file: record of the call that has just returned

hf_vars == <<hf_mode, hf_tz, hf_local, hf_remote, hf_now, hf_call>>

VARIABLES
    lt_prev,      \* Downloader.local_target: record of the call before the last
    lt_last       \* Downloader.local_target: record of the last call

lt_vars == <<lt_prev, lt_last>>

VARIABLES
    ftp_tz,       \* the offset from UTC of the local zone, in minutes
    ftp_local,    \* FTPUtil: the file at local_path
    ftp_remote,   \* the remote file: its size and its MDTM time (minutes, UTC)
    ftp_call      \* FTPUtil / BaseParser: record of the call that has just returned

ftp_vars == <<ftp_tz, ftp_local, ftp_remote, ftp_call>>

VARIABLES
    tl_pc,        \* DateProcessor loops: "idle" | "loop" | "returned" | "raised"
    tl_op,        \* the function whose loop is running
    tl_current,   \* its variable current_date
    tl_final,     \* its variable final_date
    tl_step,      \* month_step of create_monthly_periods, date_freq of dates_range
    tl_len        \* the number of elements appended to the list, modulo MaxListLen

tl_vars == <<tl_pc, tl_op, tl_current, tl_final, tl_step, tl_len>>

vars == <<fd_vars, ma_vars, eng_vars, pw_vars, dp_vars, hf_vars, lt_vars, ftp_vars, tl_vars>>

(***************************************************************************)
(* Bounds of the model                                                     *)
(***************************************************************************)
MaxRetrials == 4
MaxTicks == 4
MaxLag == 1
MaxFaults == 1
MaxFaultPos == 2
MaxDates == 2
MaxClockSteps == 1
MaxChunks == 2
MaxWrites == 2
MaxReads == 2
MaxMonthStep == 3
MaxLookback == 4
MaxHttpSteps == 3
MaxFtpRetrials == 3
MaxHttpRetrials == 3
MaxWaitSteps == 144
MaxListLen == 4

(***************************************************************************)
(* FileDownloader.download_file                                            *)
(***************************************************************************)
\* default of the `retrials` parameter
DefaultRetrials == 5

\* What one call of download_fn(remote_file, local_path) can do:
\*   "ok"       returns normally
\*   "eof"      raises EOFError
\*   "http404"  raises urllib.error.HTTPError with code 404
\*   "httperr"  raises urllib.error.HTTPError with another code
\*   "error"    raises any other Exception
AttemptOutcomes == {"ok", "eof", "http404", "httperr", "error"}

\* The try/except part of one loop iteration, before the finally clause.
\*   ok       -> break
\*   EOFError -> the handler calls self.logger(e); a Logger is not callable,
\*               so the handler itself raises TypeError
\*   404      -> return None
\*   others   -> the handler ends, the loop goes on
try_except(outcome) ==
    CASE outcome = "ok"      -> [kind |-> "break",    val |-> "local_path"]
      [] outcome = "eof"     -> [kind |-> "raise",    val |-> "TypeError"]
      [] outcome = "http404" -> [kind |-> "return",   val |-> "None"]
      [] OTHER               -> [kind |-> "continue", val |-> "-"]

\* The finally clause: on the last permitted attempt it raises ConnectionError,
\* which replaces whatever the try/except part was about to do.
finally_clause(attempt, retrials, pending) ==
    IF attempt = retrials - 1
    THEN [kind |-> "raise", val |-> "ConnectionError"]
    ELSE pending

\* One whole iteration of `for attempt in range(retrials)`.
loop_iteration(attempt, retrials, outcome) ==
    finally_clause(attempt, retrials, try_except(outcome))

\* download_file is called with `retrials`
FDCall ==
    /\ fd_pc = "idle"
    /\ \E r \in 0..MaxRetrials :
         /\ fd_retrials' = r
         /\ fd_pc' = "loop"
    /\ fd_attempt' = 0
    /\ fd_hist' = <<>>
    /\ fd_ret' = "-"

\* one iteration of the retry loop; the provider decides the outcome
FDAttempt ==
    /\ fd_pc = "loop"
    /\ fd_attempt < fd_retrials
    /\ \E o \in AttemptOutcomes :
         LET r == loop_iteration(fd_attempt, fd_retrials, o) IN
         /\ fd_hist' = Append(fd_hist, o)
         /\ fd_pc' = CASE r.kind = "continue" -> "loop"
                       [] r.kind = "raise"    -> "raised"
                       [] OTHER               -> "returned"
         /\ fd_ret' = IF r.kind = "continue" THEN "-" ELSE r.val
         /\ fd_attempt' = IF r.kind = "continue" THEN fd_attempt + 1 ELSE fd_attempt
    /\ UNCHANGED fd_retrials

\* the loop ran out of iterations without break, return or raise
FDLoopEnd ==
    /\ fd_pc = "loop"
    /\ fd_attempt >= fd_retrials
    /\ fd_pc' = "returned"
    /\ fd_ret' = "local_path"
    /\ UNCHANGED <<fd_retrials, fd_attempt, fd_hist>>

\* the caller takes the result; the downloader is ready for the next call
FDReset ==
    /\ fd_pc \in {"returned", "raised"}
    /\ fd_pc' = "idle"
    /\ fd_retrials' = 0
    /\ fd_attempt' = 0
    /\ fd_hist' = <<>>
    /\ fd_ret' = "-"

InitFDVars ==
    /\ fd_pc = "idle"
    /\ fd_retrials = 0
    /\ fd_attempt = 0
    /\ fd_hist = <<>>
    /\ fd_ret = "-"

(***************************************************************************)
(* Calendar and clock.  A time is a number of minutes since Epoch          *)
(* (2022-10-01 00:00); a day is a number of days since Epoch.              *)
(***************************************************************************)
\* the first month of the calendar of the model
Epoch == <<2022, 10>>
MinutesPerDay == 24 * 60

IsLeap(y) == (y % 4 = 0 /\ y % 100 # 0) \/ y % 400 = 0

\* calendar.monthrange(year, month)[1]
monthrange(y, m) ==
    IF m = 2 THEN (IF IsLeap(y) THEN 29 ELSE 28)
    ELSE IF m \in {4, 6, 9, 11} THEN 30 ELSE 31

\* F applied to the value of v, v being computed once
Bind(v, F(_)) == CHOOSE x \in {F(a) : a \in {v}} : TRUE

RECURSIVE ymd_from(_, _, _)
ymd_from(y, m, n) ==
    IF n < monthrange(y, m)
    THEN [year |-> y, month |-> m, day |-> n + 1]
    ELSE Bind(<<IF m = 12 THEN y + 1 ELSE y, IF m = 12 THEN 1 ELSE m + 1,
                n - monthrange(y, m)>>,
              LAMBDA a : ymd_from(a[1], a[2], a[3]))

\* the calendar date of day number n
DateOfDay(n) == ymd_from(Epoch[1], Epoch[2], n)

\* the calendar date of time t (datetime.year/.month/.day)
DateOfTime(t) == DateOfDay(t \div MinutesPerDay)

RECURSIVE days_before(_, _)
\* day number of the first day of month <<y, m>> (on or after Epoch)
days_before(y, m) ==
    IF y = Epoch[1] /\ m = Epoch[2] THEN 0
    ELSE Bind(<<IF m = 1 THEN y - 1 ELSE y, IF m = 1 THEN 12 ELSE m - 1>>,
              LAMBDA p : days_before(p[1], p[2]) + monthrange(p[1], p[2]))

\* day number of a calendar date
DayNum(y, m, d) == days_before(y, m) + d - 1

\* timedelta.seconds of (a - b), in minutes: the part of the difference within
\* a day, the whole days being held by timedelta.days
td_seconds(a, b) == (a - b) % MinutesPerDay

\* timedelta.days of (a - b)
td_days(a, b) == (a - b - td_seconds(a, b)) \div MinutesPerDay

(***************************************************************************)
(* raindownloader: MonthAccumParser.get_file / accum_monthly_rain          *)
(***************************************************************************)
NoFile == [exists |-> FALSE]

\* thresholds of get_file, in minutes
ThirtyMinutes == 30
TwoHours == 120
\* `timedelta.days < 30`
NearbyDays == 30

\* An attribute value as stored in the file: a well-formed value v (a time for
\* `updated`, a day number for `last_day`, a count for `days`), the text "NA",
\* or some other text
Val(v) == [kind |-> "ok", v |-> v]
NAVal == [kind |-> "NA", v |-> 0]
Garbage == [kind |-> "garbage", v |-> 0]

AttrNames == {"updated", "last_day", "days"}

\* a change of the artifact written: the dataset is saved without its
\* attributes
NewArtifact_without_attrs(now, end_day, n) ==
    [exists |-> TRUE, readable |-> TRUE, attrs |-> {},
     updated |-> Val(now), last_day |-> Val(end_day), days |-> Val(n)]
\* the artifact written by accum_monthly_rain at time `now` with data up to
\* day number end_day, made of `n` daily files
NewArtifact(now, end_day, n) ==
    [exists |-> TRUE, readable |-> TRUE, attrs |-> AttrNames,
     updated |-> Val(now), last_day |-> Val(end_day), days |-> Val(n)]

\* DateProcessor.parse_date on an attribute value: fails on unparsable text
parse_fails(a) == a.kind # "ok"

\* `dset.attrs["days"] != ref_days`
days_differ(a, n) == a.kind # "ok" \/ a.v # n

\* a bug of the first check: the attributes of the file are not looked at
first_check_without_attrs(file, force) ==
    IF ~file.exists \/ force
    THEN [must_update |-> TRUE, dset |-> FALSE]
    ELSE IF ~file.readable
         THEN [must_update |-> TRUE, dset |-> FALSE]
         ELSE [must_update |-> FALSE, dset |-> TRUE]
\* lines 261-288: the first check (existence, force_download, open, attributes)
\* yields must_update and whether dset was opened
first_check(file, force) ==
    IF ~file.exists \/ force
    THEN [must_update |-> TRUE, dset |-> FALSE]
    ELSE IF ~file.readable
         THEN [must_update |-> TRUE, dset |-> FALSE]   \* except Exception
         ELSE IF ~(AttrNames \subseteq file.attrs)
              THEN [must_update |-> TRUE, dset |-> TRUE]
              ELSE [must_update |-> FALSE, dset |-> TRUE]

\* lines 304-307: the number of days a complete artifact has
ref_days(date, now) ==
    LET n == DateOfTime(now) IN
    IF date[1] = n.year /\ date[2] = n.month
    THEN n.day
    ELSE monthrange(date[1], date[2])

\* lines 290-336: the second check, entered when dset is open and the first
\* check did not ask for an update.  "raise" when parsing last_day or updated
\* fails (these parse_date calls are outside the try block), "return" when
\* the 30 minutes rule returns local_target at once, "update" or "keep".
second_check(file, date, now) ==
    IF parse_fails(file.last_day) \/ parse_fails(file.updated)
    THEN "raise"
    ELSE IF td_seconds(now, file.updated.v) < ThirtyMinutes
    THEN "return"
    ELSE IF days_differ(file.days, ref_days(date, now))
    THEN "update"
    ELSE IF td_days(now, file.last_day.v * MinutesPerDay) < NearbyDays
    THEN (IF td_seconds(now, file.updated.v) > TwoHours THEN "update" ELSE "keep")
    ELSE "keep"

\* The decision of get_file: "update" (accum_monthly_rain is called),
\* "keep" (local_target is returned as it is) or "raise"
must_update_decision(file, date, now, force) ==
    LET f == first_check(file, force) IN
    IF f.must_update THEN "update"
    ELSE IF ~f.dset THEN "keep"
    ELSE LET s == second_check(file, date, now) IN
         IF s = "return" THEN "keep" ELSE s

\* accum_monthly_rain: the last day with data.  For a month that is not over,
\* the provider's last available daily file, `lag` days before today;
\* for a past month the last calendar day.
accum_end_day(date, now, lag) ==
    LET n == DateOfTime(now)
        last == DayNum(date[1], date[2], monthrange(date[1], date[2]))
        today == now \div MinutesPerDay
    IN IF last >= today THEN today - lag ELSE last


\* accum_monthly_rain as a whole: the artifact it writes, or NoFile when it
\* raises (no daily file of the month is available, or a download fails)
accum_monthly_rain(date, now, lag, fails) ==
    LET first == DayNum(date[1], date[2], 1)
        end_day == accum_end_day(date, now, lag)
    IN IF fails \/ end_day < first
       THEN NoFile
       ELSE NewArtifact(now, end_day, end_day - first + 1)

\* the months requested
ReqMonths == {<<2022, 12>>, <<2023, 1>>}

\* the clock starts on 2023-01-20 at 12:00
StartTime == DayNum(2023, 1, 20) * MinutesPerDay + 720

\* the steps the clock makes
TickSteps == {10, ThirtyMinutes, TwoHours, MinutesPerDay, NearbyDays * MinutesPerDay}

\* artifacts found on disk that this version did not write: an unreadable
\* file, files of the legacy format (lacking attributes), files whose
\* attributes are not what this version writes, files carrying the "NA" text
\* the SPI processors write
ForeignFiles ==
    LET ok == NewArtifact(StartTime - 10, DayNum(2022, 12, 31), 31) IN
    {[ok EXCEPT !.readable = FALSE]}
    \cup {[ok EXCEPT !.attrs = AttrNames \ {a}] : a \in AttrNames}
    \cup {[ok EXCEPT !.attrs = {}]}
    \cup {[ok EXCEPT !.updated = Garbage], [ok EXCEPT !.last_day = Garbage],
          [ok EXCEPT !.last_day = NAVal, !.days = NAVal],
          [ok EXCEPT !.days = NAVal]}

NoCall == [op |-> "none"]

\* get_file(date, local_folder, force_download) as a whole
MAGetFile ==
    \E force \in BOOLEAN, lag \in 0..MaxLag, fails \in BOOLEAN :
        LET decision == must_update_decision(ma_file, ma_date, ma_now, force)
            written == accum_monthly_rain(ma_date, ma_now, lag, fails)
            raised == decision = "raise" \/ (decision = "update" /\ ~written.exists)
        IN /\ ma_file' = IF decision = "update" /\ written.exists
                         THEN written ELSE ma_file
           /\ ma_call' = [op |-> "get_file", force |-> force, now |-> ma_now,
                          before |-> ma_file, decision |-> decision,
                          recomputed |-> decision = "update",
                          ret |-> IF raised THEN "raise" ELSE "local_target"]
           /\ UNCHANGED <<ma_date, ma_now, ma_ticks>>

\* time passes
MATick ==
    /\ ma_ticks < MaxTicks
    /\ \E dt \in TickSteps : ma_now' = ma_now + dt
    /\ ma_ticks' = ma_ticks + 1
    /\ ma_call' = NoCall
    /\ UNCHANGED <<ma_date, ma_file>>

InitMAVars ==
    /\ ma_date = <<2023, 1>>
    /\ ma_file = NoFile
    /\ ma_now = StartTime
    /\ ma_ticks = 0
    /\ ma_call = NoCall

(***************************************************************************)
(* mergedownloader: registry, dates and paths                              *)
(***************************************************************************)
\* InpeParsers: the registered data types
PlainTypes == {"DAILY_RAIN", "MONTHLY_ACCUM_YEARLY", "DAILY_AVERAGE",
               "MONTHLY_ACCUM", "YEARLY_ACCUM"}
StatsTypes == {"MONTHLY_AVG_N", "MONTHLY_STD_N"}
\* the instances of ProcessorParser
ProcessorTypes == {"MONTHLY_ACCUM_MANUAL", "MONTHLY_SP1", "MONTHLY_SPI"} \cup StatsTypes
InpeParsers == PlainTypes \cup ProcessorTypes
\* InpeTypes: HOURLY_WRF is a member of the enumeration with no parser
InpeTypes == InpeParsers \cup {"HOURLY_WRF"}

\* Downloader.get_parser for an Enum tag: TRUE when a parser is found in
\* self._parsers, FALSE when ValueError is raised
get_parser(datatype) == datatype \in _parsers

\* `dtype.name` of a member of InpeTypes: every member is written here by
\* its name
name_of(dtype) == dtype

\* Downloader.get_parser for a text: the key of self._parsers whose name is
\* the text, found by scanning the keys, or "ValueError"
get_parser_by_name(datatype) ==
    IF \E dtype \in _parsers : name_of(dtype) = datatype
    THEN CHOOSE dtype \in _parsers : name_of(dtype) = datatype
    ELSE "ValueError"

\* A date is <<year, month, day>>.  BadDate stands for a text that
\* DateProcessor.parse_date cannot parse.
BadDate == <<0, 0, 0>>
parse_date_fails(date) == date = BadDate

\* the types whose filename and foldername need the keyword argument n
NeedsN == StatsTypes \cup {"MONTHLY_SPI"}

\* filename and foldername of every parser; a path is the folder name, the
\* numbers that fill the folder name, the file name pattern and the numbers
\* that fill it
Path(folder, fargs, file, args) ==
    [folder |-> folder, fargs |-> fargs, file |-> file, args |-> args]
NoPath == Path("-", <<>>, "-", <<>>)

\* a change of filename of the two stats parsers: the name has the year of
\* the date as well
local_target_with_year(datatype, date, n) ==
    LET y == date[1]
        m == date[2]
        d == date[3]
    IN CASE datatype = "DAILY_RAIN" ->
              Path("DAILY/%Y/%m", <<y, m>>, "MERGE_CPTEC_%Y%m%d.grib2", <<y, m, d>>)
         [] datatype = "DAILY_AVERAGE" ->
              Path("DAILY_AVERAGE", <<>>, "MERGE_CPTEC_12Z%d%b.nc", <<d, m>>)
         [] datatype = "MONTHLY_ACCUM_YEARLY" ->
              Path("MONTHLY_ACCUMULATED_YEARLY", <<>>, "MERGE_CPTEC_acum_%b_%Y.nc", <<m, y>>)
         [] datatype = "MONTHLY_ACCUM" ->
              Path("MONTHLY_ACCUMULATED", <<>>, "MERGE_CPTEC_acum_%b.nc", <<m>>)
         [] datatype = "YEARLY_ACCUM" ->
              Path("YEAR_ACCUMULATED", <<>>, "MERGE_CPTEC_acum_%Y.nc", <<y>>)
         [] datatype = "MONTHLY_AVG_N" ->
              Path("MONTHLY_STATS_N/MONTHLY_STATS_%n", <<n>>, "Monthly_AVG_%b_%Y_N%n.nc", <<m, y, n>>)
         [] datatype = "MONTHLY_STD_N" ->
              Path("MONTHLY_STATS_N/MONTHLY_STATS_%n", <<n>>, "Monthly_STD_%b_%Y_N%n.nc", <<m, y, n>>)
         [] datatype = "MONTHLY_ACCUM_MANUAL" ->
              Path("MONTHLY_ACCUM_MANUAL", <<>>, "MERGE_CPTEC_acum_%b_%Y.nc", <<m, y>>)
         [] datatype = "MONTHLY_SP1" ->
              Path("MONTHLY_SPI1", <<>>, "SPI1_%Y-%m.nc", <<y, m>>)
         [] datatype = "MONTHLY_SPI" ->
              Path("MONTHLY_SPI%n", <<n>>, "SPI_%n_%Y-%m.nc", <<n, y, m>>)
\* Downloader.local_target: the folder and the file name of the parser
local_target(datatype, date, n) ==
    LET y == date[1]
        m == date[2]
        d == date[3]
    IN CASE datatype = "DAILY_RAIN" ->
              Path("DAILY/%Y/%m", <<y, m>>, "MERGE_CPTEC_%Y%m%d.grib2", <<y, m, d>>)
         [] datatype = "DAILY_AVERAGE" ->
              Path("DAILY_AVERAGE", <<>>, "MERGE_CPTEC_12Z%d%b.nc", <<d, m>>)
         [] datatype = "MONTHLY_ACCUM_YEARLY" ->
              Path("MONTHLY_ACCUMULATED_YEARLY", <<>>, "MERGE_CPTEC_acum_%b_%Y.nc", <<m, y>>)
         [] datatype = "MONTHLY_ACCUM" ->
              Path("MONTHLY_ACCUMULATED", <<>>, "MERGE_CPTEC_acum_%b.nc", <<m>>)
         [] datatype = "YEARLY_ACCUM" ->
              Path("YEAR_ACCUMULATED", <<>>, "MERGE_CPTEC_acum_%Y.nc", <<y>>)
         [] datatype = "MONTHLY_AVG_N" ->
              Path("MONTHLY_STATS_N/MONTHLY_STATS_%n", <<n>>, "Monthly_AVG_%b_N%n.nc", <<m, n>>)
         [] datatype = "MONTHLY_STD_N" ->
              Path("MONTHLY_STATS_N/MONTHLY_STATS_%n", <<n>>, "Monthly_STD_%b_N%n.nc", <<m, n>>)
         [] datatype = "MONTHLY_ACCUM_MANUAL" ->
              Path("MONTHLY_ACCUM_MANUAL", <<>>, "MERGE_CPTEC_acum_%b_%Y.nc", <<m, y>>)
         [] datatype = "MONTHLY_SP1" ->
              Path("MONTHLY_SPI1", <<>>, "SPI1_%Y-%m.nc", <<y, m>>)
         [] datatype = "MONTHLY_SPI" ->
              Path("MONTHLY_SPI%n", <<n>>, "SPI_%n_%Y-%m.nc", <<n, y, m>>)

\* filename/foldername raise when the keyword argument n is missing (n = 0)
local_target_fails(datatype, n) == datatype \in NeedsN /\ n = 0

\* date + relativedelta(days=1)
next_day(date) ==
    IF date[3] < monthrange(date[1], date[2]) THEN <<date[1], date[2], date[3] + 1>>
    ELSE IF date[2] < 12 THEN <<date[1], date[2] + 1, 1>>
    ELSE <<date[1] + 1, 1, 1>>

\* date + relativedelta(months=k), k >= 0: the day is cut to the month's end
add_months(date, k) ==
    LET idx == date[1] * 12 + (date[2] - 1) + k
        y == idx \div 12
        m == (idx % 12) + 1
        last == monthrange(y, m)
    IN <<y, m, IF date[3] > last THEN last ELSE date[3]>>

\* A datetime with a time of day is <<year, month, day, hour>>; a date
\* <<year, month, day>> is the datetime at midnight.
hour_of(date) == IF Len(date) = 4 THEN date[4] ELSE 0

\* the datetime with the calendar day of `ymd` and the time of day of `date`
at_time_of(date, ymd) == IF Len(date) = 4 THEN ymd \o <<date[4]>> ELSE ymd

\* DateProcessor.normalize_date: strftime("%Y%m%d") keeps the calendar day
normalize_date(date) == <<date[1], date[2], date[3]>>

\* DateProcessor.pretty_date(date, "%Y%m%dT%H%M%S"): the day and the time
pretty_date(date) == <<date[1], date[2], date[3], hour_of(date)>>

\* current_date += relativedelta(**date_freq.value)
step_date(date, freq) ==
    CASE freq = "DAILY"   -> at_time_of(date, next_day(date))
      [] freq = "MONTHLY" -> at_time_of(date, add_months(date, 1))
      [] freq = "YEARLY"  -> at_time_of(date, add_months(date, 12))
      [] freq = "HOURLY"  -> IF hour_of(date) < 23
                             THEN <<date[1], date[2], date[3], hour_of(date) + 1>>
                             ELSE next_day(date) \o <<0>>

\* datetime comparison a <= b
date_le(a, b) ==
    \/ a[1] < b[1]
    \/ a[1] = b[1] /\ a[2] < b[2]
    \/ a[1] = b[1] /\ a[2] = b[2] /\ a[3] < b[3]
    \/ a[1] = b[1] /\ a[2] = b[2] /\ a[3] = b[3] /\ hour_of(a) <= hour_of(b)

RECURSIVE dates_range(_, _, _)
\* DateProcessor.dates_range
dates_range(start_date, end_date, date_freq) ==
    IF date_le(start_date, end_date)
    THEN << IF date_freq = "HOURLY" THEN pretty_date(start_date)
            ELSE normalize_date(start_date) >>
         \o dates_range(step_date(start_date, date_freq), end_date, date_freq)
    ELSE <<>>

\* DateProcessor.start_end_dates: first and last calendar day of the month
start_end_dates(date) ==
    <<  <<date[1], date[2], 1>>,  <<date[1], date[2], monthrange(date[1], date[2])>>  >>

\* DateProcessor.today() as a date
today(now) == LET t == DateOfTime(now) IN <<t.year, t.month, t.day>>

\* dateutil's parse of "year-month": the missing day is taken from today and
\* cut to the month's end
parse_year_month(y, m, now) ==
    LET d == today(now)[3]
        last == monthrange(y, m)
    IN <<y, m, IF d > last THEN last ELSE d>>

\* a change of last_n_months: the start is `lookback` months before the date
last_n_months_one_more(date, lookback) ==
    LET idx == date[1] * 12 + (date[2] - 1) - lookback
    IN << <<idx \div 12, (idx % 12) + 1>>, <<date[1], date[2]>> >>
\* DateProcessor.last_n_months: start and end month as "year-month" texts
last_n_months(date, lookback) ==
    LET idx == date[1] * 12 + (date[2] - 1) - (lookback - 1)
    IN << <<idx \div 12, (idx % 12) + 1>>, <<date[1], date[2]>> >>

RECURSIVE create_monthly_periods_truncating(_, _, _, _)
\* a change of create_monthly_periods: the period that would go beyond
\* final_date is cut at final_date and kept
create_monthly_periods_truncating(current_date, final_date, month_step, periods) ==
    IF ~date_le(current_date, final_date) THEN periods
    ELSE LET end_period == add_months(current_date, month_step - 1) IN
         IF date_le(end_period, final_date)
         THEN create_monthly_periods_truncating(add_months(current_date, month_step),
                  final_date, month_step, Append(periods, <<current_date, end_period>>))
         ELSE Append(periods, <<current_date, final_date>>)
RECURSIVE create_monthly_periods_from(_, _, _, _)
\* the loop of DateProcessor.create_monthly_periods, `periods` being the list
\* built so far
create_monthly_periods_from(current_date, final_date, month_step, periods) ==
    IF ~date_le(current_date, final_date) THEN periods
    ELSE LET end_period == add_months(current_date, month_step - 1) IN
         IF date_le(end_period, final_date)
         THEN create_monthly_periods_from(add_months(current_date, month_step),
                  final_date, month_step, Append(periods, <<current_date, end_period>>))
         ELSE periods   \* break

\* DateProcessor.create_monthly_periods
create_monthly_periods(start_date, end_date, month_step) ==
    create_monthly_periods_from(start_date, end_date, month_step, <<>>)

(***************************************************************************)
(* mergedownloader: the provider as the engine sees it                     *)
(***************************************************************************)
\* How the provider answers the requests for one remote file:
\*   "up"      every request succeeds
\*   "absent"  every request is answered 404
\*   "down"    every request fails with a transport error
\*   "flaky"   the first request fails with a transport error, the next succeed
FaultClasses == {"absent", "down", "flaky"}

outcome_at(class, attempt) ==
    CASE class = "up"     -> "ok"
      [] class = "absent" -> "http404"
      [] class = "down"   -> "error"
      [] class = "flaky"  -> IF attempt = 0 THEN "error" ELSE "ok"

RECURSIVE download_file_from(_, _, _)
\* the retry loop of FileDownloader.download_file from iteration `attempt` on
download_file_from(attempt, retrials, class) ==
    IF attempt >= retrials
    THEN [kind |-> "break", val |-> "local_path"]
    ELSE Bind(loop_iteration(attempt, retrials, outcome_at(class, attempt)), LAMBDA r :
           IF r.kind = "continue"
           THEN download_file_from(attempt + 1, retrials, class)
           ELSE r)

\* FileDownloader.download_file(remote_file, local_folder) as a whole
download_file(class) == download_file_from(0, DefaultRetrials, class)

\* The provider's answer class for the pos-th download of an engine call:
\* the fault injected at that position, else "absent" for a daily file dated
\* after today (it is not published yet), else "up"
provider_class(datatype, date, env, pos) ==
    IF pos \in DOMAIN env.faults THEN env.faults[pos]
    ELSE IF datatype = "DAILY_RAIN" /\ ~date_le(date, today(env.now)) THEN "absent"
    ELSE "up"

(***************************************************************************)
(* mergedownloader: the processors                                         *)
(***************************************************************************)
FileAt(store, path) == IF path \in DOMAIN store THEN store[path] ELSE NoFile

\* a downloaded file, and a file written by StatsCalculator._save_stats
\* (arr.to_netcdf: the attributes set on dset are not in the file)
PlainFile ==
    [exists |-> TRUE, readable |-> TRUE, attrs |-> {},
     updated |-> NAVal, last_day |-> NAVal, days |-> NAVal]

TwoDays == 2 * MinutesPerDay

\* ProcessorParser.must_update of the base class: the staleness table
is_stale(file, date, now) ==
    IF ~file.exists THEN TRUE
    ELSE IF ~file.readable THEN TRUE
    ELSE IF ~(AttrNames \subseteq file.attrs) THEN TRUE
    ELSE IF file.updated.kind # "ok" THEN TRUE
    ELSE IF file.days.kind # "NA"
            /\ days_differ(file.days, ref_days(<<date[1], date[2]>>, now))
         THEN ~(now - file.updated.v < ThirtyMinutes)
         ELSE now - file.updated.v > TwoDays

\* a change of must_update: a missing MONTHLY_AVG_N or MONTHLY_STD_N file is
\* asked to be created like any other artifact
must_update_computing_stats(datatype, date, n, now, store) ==
    LET file == FileAt(store, local_target(datatype, date, n)) IN
    IF datatype \in StatsTypes
    THEN (IF ~file.exists THEN "true" ELSE "false")
    ELSE (IF is_stale(file, date, now) THEN "true" ELSE "false")
\* must_update of a processor: "true", "false" or "raise" (ValueError)
must_update(datatype, date, n, now, store) ==
    LET file == FileAt(store, local_target(datatype, date, n)) IN
    IF datatype \in StatsTypes
    THEN (IF ~file.exists THEN "raise" ELSE "false")
    ELSE (IF is_stale(file, date, now) THEN "true" ELSE "false")

\* a dependency element: the keyword arguments handed to open_file
Params(date, n) == [date |-> date, n |-> n]
Dep(datatype, lst) == [datatype |-> datatype, lst |-> lst]

\* SPI1Processor: the years whose MONTHLY_ACCUM_YEARLY is used
SPIStartYear == 2001

\* inform_dependencies: [kind |-> "raise"] (ValueError), [kind |-> "none"]
\* (the method returns None) or the mapping, in insertion order
inform_dependencies(datatype, date, n, now) ==
    Bind(today(now), LAMBDA t :
    LET current == t[1] = date[1] /\ t[2] = date[2]
    IN CASE datatype = "MONTHLY_ACCUM_MANUAL" ->
              Bind(start_end_dates(date), LAMBDA se :
              Bind(dates_range(se[1], se[2], "DAILY"), LAMBDA dates :
                 [kind |-> "deps",
                  deps |-> << Dep("DAILY_RAIN",
                                  [i \in 1..Len(dates) |-> Params(dates[i], 0)]) >>]))
         [] datatype = "MONTHLY_SP1" ->
              IF current THEN [kind |-> "raise", deps |-> <<>>]
              ELSE [kind |-> "deps",
                    deps |-> << Dep("MONTHLY_ACCUM_YEARLY",
                                    [i \in 1..(t[1] - SPIStartYear) |->
                                        Params(<<SPIStartYear + i - 1, date[2], 1>>, 0)]),
                                Dep("MONTHLY_ACCUM_MANUAL", <<Params(date, 0)>>) >>]
         [] datatype = "MONTHLY_SPI" ->
              IF current \/ date_le(t, date) THEN [kind |-> "raise", deps |-> <<>>]
              ELSE Bind(last_n_months(date, n), LAMBDA se :
                   Bind(<<parse_year_month(se[1][1], se[1][2], now),
                          parse_year_month(se[2][1], se[2][2], now)>>, LAMBDA ym :
                   Bind(dates_range(ym[1], ym[2], "MONTHLY"), LAMBDA months :
                      [kind |-> "deps",
                       deps |-> << Dep("MONTHLY_AVG_N", <<Params(date, n)>>),
                                   Dep("MONTHLY_STD_N", <<Params(date, n)>>),
                                   Dep("MONTHLY_ACCUM_MANUAL",
                                       [i \in 1..Len(months) |-> Params(months[i], 0)]) >>])))
         [] OTHER -> [kind |-> "none", deps |-> <<>>])

\* what open_file returns: the array of a file, or None
Arr(date) == [none |-> FALSE, date |-> date]
NoneArr == [none |-> TRUE, date |-> BadDate]

HasNone(arrs) == \E i \in 1..Len(arrs) : arrs[i].none

\* the list filled for `datatype`, <<>> when the mapping has no such key
Filled(filled, datatype) ==
    IF \E i \in 1..Len(filled) : filled[i].datatype = datatype
    THEN filled[CHOOSE i \in 1..Len(filled) : filled[i].datatype = datatype].lst
    ELSE <<>>

\* create_file: the dataset to be written (ok = TRUE) or an exception.
\* xr.concat raises on an empty list and on a list holding None; an
\* attribute access on None raises
create_file(datatype, date, filled, now) ==
    LET failed == [ok |-> FALSE, file |-> NoFile] IN
    CASE datatype = "MONTHLY_ACCUM_MANUAL" ->
           LET arrs == Filled(filled, "DAILY_RAIN") IN
           IF arrs = <<>> \/ HasNone(arrs) THEN failed
           ELSE LET last == arrs[Len(arrs)].date IN
                [ok |-> TRUE,
                 file |-> NewArtifact(now, DayNum(last[1], last[2], last[3]), Len(arrs))]
      [] datatype = "MONTHLY_SP1" ->
           LET cube == Filled(filled, "MONTHLY_ACCUM_YEARLY")
               rain == Filled(filled, "MONTHLY_ACCUM_MANUAL")
           IN IF cube = <<>> \/ HasNone(cube) \/ rain = <<>> \/ rain[1].none THEN failed
              ELSE [ok |-> TRUE,
                    file |-> [NewArtifact(now, 0, 0) EXCEPT !.last_day = NAVal, !.days = NAVal]]
      [] datatype = "MONTHLY_SPI" ->
           LET avg == Filled(filled, "MONTHLY_AVG_N")
               std == Filled(filled, "MONTHLY_STD_N")
               rain == Filled(filled, "MONTHLY_ACCUM_MANUAL")
           IN IF avg = <<>> \/ avg[1].none \/ std = <<>> \/ std[1].none
                 \/ rain = <<>> \/ HasNone(rain) THEN failed
              ELSE [ok |-> TRUE,
                    file |-> [NewArtifact(now, 0, 0) EXCEPT !.last_day = NAVal, !.days = NAVal]]
      [] OTHER -> failed   \* the method returns None; None.to_netcdf raises

(***************************************************************************)
(* mergedownloader: Downloader                                             *)
(*                                                                         *)
(* A call runs in an environment env = [now, faults] and threads a context *)
(* ctx = [store, log, fetches]: the local files, the calls made so far and *)
(* the number of download_file calls made so far.  Every operator returns  *)
(* [ctx, kind, path, exc] with kind "path" (a path is returned), "none"    *)
(* (None is returned) or "raise" (exc is raised).                          *)
(***************************************************************************)
\* an entry of the log of a call: the method called, for which request, what
\* it answered (res) and, for create_file, the number of elements (count) and
\* of None elements (nones) of the dependency lists it was handed
Ev(ev, datatype, date, n, res, count, nones) ==
    [ev |-> ev, datatype |-> datatype, date |-> date, n |-> n,
     res |-> res, count |-> count, nones |-> nones]

Logged(ctx, e) == [ctx EXCEPT !.log = Append(@, e)]

Returns(ctx, path) == [ctx |-> ctx, kind |-> "path", path |-> path, exc |-> "-"]
ReturnsNone(ctx) == [ctx |-> ctx, kind |-> "none", path |-> NoPath, exc |-> "-"]
Raises(ctx, exc) == [ctx |-> ctx, kind |-> "raise", path |-> NoPath, exc |-> exc]

\* a change of _download_file: a file already at the local target is returned
\* without asking the FileDownloader
_download_file_unless_present(datatype, date, n, env, ctx) ==
    LET target == local_target(datatype, date, n) IN
    IF FileAt(ctx.store, target).exists THEN Returns(ctx, target)
    ELSE Bind(download_file(provider_class(datatype, date, env, ctx.fetches + 1)), LAMBDA r :
           IF r.kind = "raise" THEN Raises(ctx, r.val)
           ELSE IF r.val = "None" THEN ReturnsNone(ctx)
           ELSE Returns([ctx EXCEPT !.store = (target :> PlainFile) @@ @], target))
\* a change of _download_file: download_file is called a second time when
\* the first call raised
_download_file_retrying(datatype, date, n, env, ctx) ==
    LET target == local_target(datatype, date, n)
        pos == ctx.fetches + 1
        c1 == [ctx EXCEPT !.fetches = pos]
    IN Bind(download_file(provider_class(datatype, date, env, pos)), LAMBDA r :
         IF r.kind = "raise"
         THEN LET c2 == Logged([c1 EXCEPT !.fetches = pos + 1],
                               Ev("download_file", datatype, date, n, "raise", 0, 0))
              IN Raises(Logged(c2, Ev("download_file", datatype, date, n, "raise", 0, 0)),
                        r.val)
         ELSE IF r.val = "None"
         THEN ReturnsNone(Logged(c1, Ev("download_file", datatype, date, n, "none", 0, 0)))
         ELSE Returns(Logged([c1 EXCEPT !.store = (target :> PlainFile) @@ @],
                             Ev("download_file", datatype, date, n, "path", 0, 0)),
                      target))
\* Downloader._download_file
_download_file(datatype, date, n, env, ctx) ==
    LET target == local_target(datatype, date, n)
        pos == ctx.fetches + 1
        c1 == [ctx EXCEPT !.fetches = pos]
    IN Bind(download_file(provider_class(datatype, date, env, pos)), LAMBDA r :
         IF r.kind = "raise"
         THEN Raises(Logged(c1, Ev("download_file", datatype, date, n, "raise", 0, 0)), r.val)
         ELSE IF r.val = "None"
         THEN ReturnsNone(Logged(c1, Ev("download_file", datatype, date, n, "none", 0, 0)))
         ELSE Returns(Logged([c1 EXCEPT !.store = (target :> PlainFile) @@ @],
                             Ev("download_file", datatype, date, n, "path", 0, 0)),
                      target))

NumNone(arrs) == Cardinality({i \in 1..Len(arrs) : arrs[i].none})
TotalLen(filled) ==
    LET RECURSIVE sum(_)
        sum(i) == IF i > Len(filled) THEN 0 ELSE Len(filled[i].lst) + sum(i + 1)
    IN sum(1)
TotalNone(filled) ==
    LET RECURSIVE sum(_)
        sum(i) == IF i > Len(filled) THEN 0 ELSE NumNone(filled[i].lst) + sum(i + 1)
    IN sum(1)

\* the keys of a mapping of dependencies, in insertion order
KeysOf(filled) == [i \in 1..Len(filled) |-> filled[i].datatype]

\* `if result is not None: result.append(arr)`: result is the list, never None
append_result(result, arr) == Append(result, arr)

\* a bug of _process_file: the file is written although must_update is False
return_local_target_rewriting(ctx, target) ==
    Returns([ctx EXCEPT !.store = (target :> NewArtifact(0, 0, 0)) @@ @], target)
\* `if not processor.must_update(...): return local_target`
return_local_target(ctx, target) == Returns(ctx, target)

RECURSIVE get_file(_, _, _, _, _)
RECURSIVE open_file(_, _, _, _, _)
RECURSIVE parse_dependencies_loop(_, _, _, _, _, _)
RECURSIVE fill_from(_, _, _, _, _)
RECURSIVE _process_file(_, _, _, _, _)

\* a change of open_file: an exception of get_file is swallowed and None is
\* returned for the element
open_file_swallowing(datatype, date, n, env, ctx) ==
    Bind(get_file(datatype, date, n, env, ctx), LAMBDA r :
      IF r.kind = "path" THEN [ctx |-> r.ctx, kind |-> "arr", arr |-> Arr(date), exc |-> "-"]
      ELSE [ctx |-> r.ctx, kind |-> "arr", arr |-> NoneArr, exc |-> "-"])
\* Downloader.open_file: [ctx, kind, arr, exc] with kind "arr" or "raise"
open_file(datatype, date, n, env, ctx) ==
    Bind(get_file(datatype, date, n, env, ctx), LAMBDA r :
      IF r.kind = "raise" THEN [ctx |-> r.ctx, kind |-> "raise", arr |-> NoneArr, exc |-> r.exc]
      ELSE IF r.kind = "path" THEN [ctx |-> r.ctx, kind |-> "arr", arr |-> Arr(date), exc |-> "-"]
      ELSE [ctx |-> r.ctx, kind |-> "arr", arr |-> NoneArr, exc |-> "-"])

\* one iteration of the loop of Downloader._parse_dependencies, for element
\* i, st being [ctx, kind, lst, exc] with the list built so far
parse_dependency(datatype, lst, i, st, env) ==
    Bind(open_file(datatype, lst[i].date, lst[i].n, env, st.ctx), LAMBDA a :
      IF a.kind = "raise"
      THEN [ctx |-> a.ctx, kind |-> "raise", lst |-> st.lst, exc |-> a.exc]
      ELSE [ctx |-> a.ctx, kind |-> "list", lst |-> append_result(st.lst, a.arr),
            exc |-> "-"])

\* the iterations lo..hi of the loop of Downloader._parse_dependencies, run
\* as those of the first half and then those of the second half; an
\* exception leaves the loop: [ctx, kind, lst, exc] with kind "list" or "raise"
parse_dependencies_loop(datatype, lst, lo, hi, st, env) ==
    IF st.kind = "raise" \/ lo > hi THEN st
    ELSE IF lo = hi THEN parse_dependency(datatype, lst, lo, st, env)
    ELSE Bind(parse_dependencies_loop(datatype, lst, lo, (lo + hi) \div 2, st, env),
              LAMBDA half :
                parse_dependencies_loop(datatype, lst, (lo + hi) \div 2 + 1, hi, half, env))

\* a change of _parse_dependencies: the list is gone through from its end
_parse_dependencies_backwards(datatype, lst, env, ctx) ==
    Bind([ctx |-> ctx, kind |-> "list", lst |-> <<>>, exc |-> "-"], LAMBDA st :
      parse_dependencies_loop(datatype, [i \in 1..Len(lst) |-> lst[Len(lst) + 1 - i]],
                              1, Len(lst), st, env))
\* Downloader._parse_dependencies
_parse_dependencies(datatype, lst, env, ctx) ==
    Bind([ctx |-> ctx, kind |-> "list", lst |-> <<>>, exc |-> "-"], LAMBDA st :
      parse_dependencies_loop(datatype, lst, 1, Len(lst), st, env))

\* a change of the loop of _process_file: only the first list of the
\* dependencies is resolved
fill_from_first_list(deps, i, filled, env, ctx) ==
    IF i > Len(deps) THEN [ctx |-> ctx, kind |-> "filled", filled |-> filled, exc |-> "-"]
    ELSE Bind(_parse_dependencies(deps[i].datatype, deps[i].lst, env, ctx), LAMBDA r :
           IF r.kind = "raise"
           THEN [ctx |-> r.ctx, kind |-> "raise", filled |-> filled, exc |-> r.exc]
           ELSE [ctx |-> r.ctx, kind |-> "filled",
                 filled |-> Append(filled, Dep(deps[i].datatype, r.lst)), exc |-> "-"])
\* the loop `for dtype, lst in dependencies.items()` of _process_file
fill_from(deps, i, filled, env, ctx) ==
    IF i > Len(deps) THEN [ctx |-> ctx, kind |-> "filled", filled |-> filled, exc |-> "-"]
    ELSE Bind(_parse_dependencies(deps[i].datatype, deps[i].lst, env, ctx), LAMBDA r :
           IF r.kind = "raise"
           THEN [ctx |-> r.ctx, kind |-> "raise", filled |-> filled, exc |-> r.exc]
           ELSE Bind(Append(filled, Dep(deps[i].datatype, r.lst)), LAMBDA fl :
                  fill_from(deps, i + 1, fl, env, r.ctx)))

\* a change of _process_file: local_target is opened for writing before
\* create_file is called
_process_file_opening_target_first(datatype, date, n, env, ctx) ==
    IF local_target_fails(datatype, n) THEN Raises(ctx, "ValueError")
    ELSE
    LET target == local_target(datatype, date, n) IN
    Bind(must_update(datatype, date, n, env.now, ctx.store), LAMBDA mu :
      LET c1 == Logged(ctx, Ev("must_update", datatype, date, n, mu, 0, 0)) IN
      IF mu = "raise" THEN Raises(c1, "ValueError")
      ELSE IF mu = "false" THEN return_local_target(c1, target)
      ELSE
      Bind(inform_dependencies(datatype, date, n, env.now), LAMBDA deps :
        LET c2 == Logged(c1, Ev("inform_dependencies", datatype, date, n, deps.kind, 0, 0)) IN
        IF deps.kind = "raise" THEN Raises(c2, "ValueError")
        ELSE
        Bind(IF deps.kind = "none"
             THEN [ctx |-> c2, kind |-> "filled", filled |-> <<>>, exc |-> "-"]
             ELSE fill_from(deps.deps, 1, <<>>, env, c2), LAMBDA f :
          IF f.kind = "raise" THEN Raises(f.ctx, f.exc)
          ELSE
          Bind(create_file(datatype, date, f.filled, env.now), LAMBDA dset :
            LET c3 == Logged(f.ctx, Ev("create_file", datatype, date, n,
                                       IF dset.ok THEN "dset" ELSE "raise",
                                       TotalLen(f.filled), TotalNone(f.filled))
                                    @@ [keys |-> KeysOf(f.filled)])
            IN IF ~dset.ok
               THEN Raises([c3 EXCEPT !.store = (target :> Garbage) @@ @], "TypeError")
               ELSE Returns(Logged([c3 EXCEPT !.store = (target :> dset.file) @@ @],
                                   Ev("to_netcdf", datatype, date, n, "-", 0, 0)),
                            target)))))

\* Downloader._process_file
_process_file(datatype, date, n, env, ctx) ==
    IF local_target_fails(datatype, n) THEN Raises(ctx, "ValueError")
    ELSE
    LET target == local_target(datatype, date, n) IN
    Bind(must_update(datatype, date, n, env.now, ctx.store), LAMBDA mu :
      LET c1 == Logged(ctx, Ev("must_update", datatype, date, n, mu, 0, 0)) IN
      IF mu = "raise" THEN Raises(c1, "ValueError")
      ELSE IF mu = "false" THEN return_local_target(c1, target)
      ELSE
      Bind(inform_dependencies(datatype, date, n, env.now), LAMBDA deps :
        LET c2 == Logged(c1, Ev("inform_dependencies", datatype, date, n, deps.kind, 0, 0)) IN
        IF deps.kind = "raise" THEN Raises(c2, "ValueError")
        ELSE
        Bind(IF deps.kind = "none"
             THEN [ctx |-> c2, kind |-> "filled", filled |-> <<>>, exc |-> "-"]
             ELSE fill_from(deps.deps, 1, <<>>, env, c2), LAMBDA f :
          IF f.kind = "raise" THEN Raises(f.ctx, f.exc)
          ELSE
          Bind(create_file(datatype, date, f.filled, env.now), LAMBDA dset :
            LET c3 == Logged(f.ctx, Ev("create_file", datatype, date, n,
                                       IF dset.ok THEN "dset" ELSE "raise",
                                       TotalLen(f.filled), TotalNone(f.filled))
                                    @@ [keys |-> KeysOf(f.filled)])
            IN IF ~dset.ok THEN Raises(c3, "TypeError")
               ELSE Returns(Logged([c3 EXCEPT !.store = (target :> dset.file) @@ @],
                                   Ev("to_netcdf", datatype, date, n, "-", 0, 0)),
                            target)))))

\* Downloader.get_file
get_file(datatype, date, n, env, ctx) ==
    IF parse_date_fails(date) THEN Raises(ctx, "ParserError")
    ELSE IF ~get_parser(datatype) THEN Raises(ctx, "ValueError")
    ELSE IF datatype \notin ProcessorTypes
    THEN _download_file(datatype, date, n, env, ctx)
    ELSE _process_file(datatype, date, n, env, ctx)

\* an element of the list get_files returns: a path or None
PathEntry(path) == [none |-> FALSE, path |-> path]
NoneEntry == [none |-> TRUE, path |-> NoPath]

\* a bug of get_files: the exception of one date leaves get_files
files_entry_reraising(r) ==
    IF r.kind = "raise" THEN [propagates |-> TRUE, entry |-> <<>>]
    ELSE IF r.kind = "none" THEN [propagates |-> FALSE, entry |-> <<NoneEntry>>]
    ELSE [propagates |-> FALSE, entry |-> <<PathEntry(r.path)>>]
\* the try/except/else of the loop of Downloader.get_files for one date, r
\* being what get_file did: what is appended to `files`, or that the
\* exception leaves get_files (never, `except Exception` catches it)
files_entry(r) ==
    IF r.kind = "raise" THEN [propagates |-> FALSE, entry |-> <<NoneEntry>>]
    ELSE IF r.kind = "none" THEN [propagates |-> FALSE, entry |-> <<NoneEntry>>]
    ELSE [propagates |-> FALSE, entry |-> <<PathEntry(r.path)>>]

RECURSIVE get_files_from(_, _, _, _, _, _, _)
\* the loop of Downloader.get_files from date i on: [ctx, kind, files,
\* outcomes, exc]; outcomes records what each get_file call did
get_files_from(dates, i, files, outcomes, datatype_n, env, ctx) ==
    IF i > Len(dates)
    THEN [ctx |-> ctx, kind |-> "list", files |-> files, outcomes |-> outcomes, exc |-> "-"]
    ELSE Bind(get_file(datatype_n[1], dates[i], datatype_n[2], env, ctx), LAMBDA r :
           LET o == [kind |-> r.kind, path |-> r.path, exc |-> r.exc]
               e == files_entry(r)
           IN IF e.propagates
              THEN [ctx |-> r.ctx, kind |-> "raise", files |-> files,
                    outcomes |-> Append(outcomes, o), exc |-> r.exc]
              ELSE Bind(<<files \o e.entry, Append(outcomes, o)>>, LAMBDA fo :
                     get_files_from(dates, i + 1, fo[1], fo[2], datatype_n, env, r.ctx)))

\* Downloader.get_files
get_files(dates, datatype, n, env, ctx) ==
    get_files_from(dates, 1, <<>>, <<>>, <<datatype, n>>, env, ctx)

\* constants["freq"] of every parser
date_freq(datatype) ==
    CASE datatype \in {"DAILY_RAIN", "DAILY_AVERAGE"} -> "DAILY"
      [] datatype = "YEARLY_ACCUM" -> "YEARLY"
      [] OTHER -> "MONTHLY"

\* the dates_range method of a parser: DateProcessor.dates_range at the
\* parser's own frequency
parser_dates_range(datatype, start_date, end_date) ==
    dates_range(start_date, end_date, date_freq(datatype))

\* a change of get_range: the range is enumerated month by month for every
\* parser
get_range_by_month(start_date, end_date, datatype, n, env, ctx) ==
    IF ~get_parser(datatype)
    THEN [ctx |-> ctx, kind |-> "raise", files |-> <<>>, outcomes |-> <<>>,
          exc |-> "ValueError"]
    ELSE IF parse_date_fails(start_date) \/ parse_date_fails(end_date)
    THEN [ctx |-> ctx, kind |-> "raise", files |-> <<>>, outcomes |-> <<>>,
          exc |-> "ParserError"]
    ELSE get_files(dates_range(start_date, end_date, "MONTHLY"), datatype, n, env, ctx)
\* Downloader.get_range: get_parser raises ValueError for a type with no
\* parser, dates_range raises on a text that is no date (both before the
\* loop of get_files, so the exception leaves get_range)
get_range(start_date, end_date, datatype, n, env, ctx) ==
    IF ~get_parser(datatype)
    THEN [ctx |-> ctx, kind |-> "raise", files |-> <<>>, outcomes |-> <<>>,
          exc |-> "ValueError"]
    ELSE IF parse_date_fails(start_date) \/ parse_date_fails(end_date)
    THEN [ctx |-> ctx, kind |-> "raise", files |-> <<>>, outcomes |-> <<>>,
          exc |-> "ParserError"]
    ELSE get_files(parser_dates_range(datatype, start_date, end_date),
                   datatype, n, env, ctx)

(***************************************************************************)
(* mergedownloader: the calls made on a Downloader                         *)
(***************************************************************************)
\* the dates asked for, by data type; 2023-01-25 is after today
ReqDates(datatype) ==
    CASE datatype = "DAILY_RAIN" -> {<<2023, 1, 5>>, <<2023, 1, 25>>}
      [] datatype = "HOURLY_WRF" -> {<<2023, 1, 5>>}
      [] datatype \in PlainTypes \cup StatsTypes -> {<<2022, 12, 1>>}
      [] datatype = "MONTHLY_ACCUM_MANUAL" -> {<<2022, 12, 15>>, <<2023, 1, 10>>}
      [] OTHER -> {<<2022, 12, 1>>, <<2023, 1, 1>>}

\* a month after the current one, asked of the two SPI processors
FutureDates(datatype) ==
    IF datatype \in {"MONTHLY_SP1", "MONTHLY_SPI"} THEN {<<2023, 2, 1>>} ELSE {}

\* the ranges <<start, end>> asked for, by data type; 2023-01-21 is after
\* today, and the last range of each type is empty
ReqRanges(datatype) ==
    CASE datatype = "DAILY_RAIN" ->
             {<< <<2023, 1, 3>>, <<2023, 1, 5>> >>, << <<2023, 1, 19>>, <<2023, 1, 21>> >>,
              << <<2023, 1, 5>>, <<2023, 1, 3>> >>}
      [] datatype = "DAILY_AVERAGE" ->
             {<< <<2022, 12, 1>>, <<2022, 12, 3>> >>, << <<2022, 12, 3>>, <<2022, 12, 1>> >>}
      [] datatype = "YEARLY_ACCUM" ->
             {<< <<2020, 12, 1>>, <<2022, 12, 1>> >>, << <<2022, 12, 1>>, <<2020, 12, 1>> >>}
      [] datatype \in PlainTypes ->
             {<< <<2022, 10, 1>>, <<2022, 12, 1>> >>, << <<2022, 12, 1>>, <<2022, 10, 1>> >>}
      [] datatype = "MONTHLY_ACCUM_MANUAL" ->
             {<< <<2022, 12, 15>>, <<2023, 1, 10>> >>, << <<2023, 1, 10>>, <<2022, 12, 15>> >>}
      [] OTHER ->
             {<< <<2022, 12, 1>>, <<2022, 12, 1>> >>, << <<2023, 1, 1>>, <<2022, 12, 1>> >>}

\* the keyword argument n asked for, by data type (0: not given)
ReqN(datatype) == IF datatype \in NeedsN THEN {1, 2} ELSE {0}

\* what a session asks for: a data type and its keyword argument
Sessions == {[datatype |-> t, n |-> k] : t \in InpeTypes, k \in {0, 1, 2}}

\* sequences over S of length at most k
SeqUpTo(S, k) == UNION {[1..j -> S] : j \in 0..k}

\* the faults of one call: the position of the download they hit, and how
FaultSets ==
    {f \in UNION {[P -> FaultClasses] : P \in SUBSET (1..MaxFaultPos)} :
        Cardinality(DOMAIN f) <= MaxFaults}

\* the files MONTHLY_AVG_N and MONTHLY_STD_N of an earlier run of
\* StatsCalculator.calc_monthly_avg_std_n(n), made in `year` for the year before
StatsFiles(n, year) ==
    LET keys == {local_target(t, <<year - 1, m, 1>>, n) : t \in StatsTypes, m \in 1..12}
    IN [k \in keys |-> PlainFile]

EmptyStore == [k \in {} |-> NoFile]

\* the `parsers` mappings a Downloader is built with: InpeParsers, and for
\* MONTHLY_ACCUM_MANUAL and MONTHLY_SP1 also a mapping that lacks the parser
\* of one of the types the processor depends on
Registries(datatype) ==
    CASE datatype = "MONTHLY_ACCUM_MANUAL" -> {InpeParsers, InpeParsers \ {"DAILY_RAIN"}}
      [] datatype = "MONTHLY_SP1" -> {InpeParsers, InpeParsers \ {"MONTHLY_ACCUM_MANUAL"}}
      [] OTHER -> {InpeParsers}

\* the artifact of December 2022 left by an earlier run, written ten minutes
\* before the start
EarlierArtifact(datatype) ==
    LET file == IF datatype = "MONTHLY_ACCUM_MANUAL"
                THEN NewArtifact(StartTime - 10, DayNum(2022, 12, 31), 31)
                ELSE [NewArtifact(StartTime - 10, 0, 0)
                        EXCEPT !.last_day = NAVal, !.days = NAVal]
    IN (local_target(datatype, <<2022, 12, 1>>, 0) :> file)

\* the record of a call of get_file or get_files
CallRecord(op, dates, r, before, files, outcomes, repeat) ==
    [op |-> op, dates |-> dates,
     kind |-> r.kind, path |-> r.path, exc |-> r.exc,
     files |-> files, outcomes |-> outcomes, log |-> r.ctx.log,
     before |-> before,
     repeat |-> repeat,
     prev_kind |-> IF repeat THEN call.kind ELSE "-",
     prev_path |-> IF repeat THEN call.path ELSE NoPath]

\* the file at the local target of the request before the call
Before(date) ==
    IF parse_date_fails(date) \/ ~get_parser(focus.datatype)
       \/ local_target_fails(focus.datatype, focus.n)
    THEN NoFile
    ELSE FileAt(disk, local_target(focus.datatype, date, focus.n))

DoGetFile(date, faults, repeat) ==
    LET env == [now |-> clock, faults |-> faults] IN
    \E r \in {get_file(focus.datatype, date, focus.n, env,
                       [store |-> disk, log |-> <<>>, fetches |-> 0])} :
       /\ disk' = r.ctx.store
       /\ call' = CallRecord("get_file", <<date>>, r, Before(date), <<>>, <<>>, repeat)
       /\ UNCHANGED <<clock, ticks, focus, _parsers, stats_done>>

\* Downloader.get_file(date, datatype, n=n)
GetFile ==
    /\ call.op = "none"
    /\ \E faults \in FaultSets,
          date \in ReqDates(focus.datatype) \cup FutureDates(focus.datatype) \cup {BadDate} :
          DoGetFile(date, faults, FALSE)

\* Downloader.get_file called again at once with the arguments of the call
\* that has just returned
GetFileAgain ==
    /\ call.op = "get_file"
    /\ ~call.repeat
    /\ \E faults \in FaultSets : DoGetFile(call.dates[1], faults, TRUE)

\* Downloader.get_files(dates, datatype, n=n)
GetFiles ==
    /\ call.op = "none"
    /\ \E faults \in FaultSets,
          dates \in SeqUpTo(ReqDates(focus.datatype) \cup {BadDate}, MaxDates) :
        LET env == [now |-> clock, faults |-> faults] IN
        \E r \in {get_files(dates, focus.datatype, focus.n, env,
                             [store |-> disk, log |-> <<>>, fetches |-> 0])} :
           /\ disk' = r.ctx.store
           /\ call' = CallRecord("get_files", dates, r @@ [path |-> NoPath],
                                 NoFile, r.files, r.outcomes, FALSE)
           /\ UNCHANGED <<clock, ticks, focus, _parsers, stats_done>>

\* Downloader.get_range(start_date, end_date, datatype, n=n); the record of
\* the call keeps the two arguments as its dates
GetRange ==
    /\ call.op = "none"
    /\ \E faults \in FaultSets,
          rng \in ReqRanges(focus.datatype) \cup {<<BadDate, <<2022, 12, 1>> >>} :
        LET env == [now |-> clock, faults |-> faults] IN
        \E r \in {get_range(rng[1], rng[2], focus.datatype, focus.n, env,
                             [store |-> disk, log |-> <<>>, fetches |-> 0])} :
           /\ disk' = r.ctx.store
           /\ call' = CallRecord("get_range", rng, r @@ [path |-> NoPath],
                                 NoFile, r.files, r.outcomes, FALSE)
           /\ UNCHANGED <<clock, ticks, focus, _parsers, stats_done>>

\* the caller takes the result of the call
Return ==
    /\ call.op # "none"
    /\ call' = NoCall
    /\ UNCHANGED <<disk, clock, ticks, focus, _parsers, stats_done>>

\* the steps the clock makes between calls
ClockSteps == {10, TwoDays + 10}

\* time passes between two calls
Tick ==
    /\ call.op = "none"
    /\ ticks < MaxClockSteps
    /\ \E dt \in ClockSteps : clock' = clock + dt
    /\ ticks' = ticks + 1
    /\ UNCHANGED <<disk, call, focus, _parsers, stats_done>>

InitEngVars ==
    /\ focus = [datatype |-> "DAILY_RAIN", n |-> 0]
    /\ _parsers = InpeParsers
    /\ stats_done = FALSE
    /\ disk = EmptyStore
    /\ clock = StartTime
    /\ ticks = 0
    /\ call = NoCall

(***************************************************************************)
(* mergedownloader: `dset.to_netcdf(local_target)` of _process_file, step  *)
(* by step, next to the other readers of local_target                      *)
(***************************************************************************)
\* a file at local_target: absent, a complete dataset (version 0 is the one
\* found at the start), or the first `chunks` pieces of a dataset
Absent == [state |-> "absent", version |-> 0, chunks |-> 0]
Complete(v) == [state |-> "complete", version |-> v, chunks |-> MaxChunks]
Partial(v, k) == [state |-> "partial", version |-> v, chunks |-> k]

\* to_netcdf opens the path it is given for writing: the file is created, or
\* the one that is there is truncated
ToNetcdfOpen ==
    /\ pw_pc = "idle"
    /\ pw_version < MaxWrites
    /\ pw_version' = pw_version + 1
    /\ pw_target' = Partial(pw_version + 1, 0)
    /\ pw_pc' = "writing"
    /\ UNCHANGED pw_reads

\* to_netcdf writes the next piece of the dataset
ToNetcdfWrite ==
    /\ pw_pc = "writing"
    /\ pw_target.chunks < MaxChunks
    /\ pw_target' = [pw_target EXCEPT !.chunks = @ + 1]
    /\ UNCHANGED <<pw_pc, pw_version, pw_reads>>

\* to_netcdf closes the file and _process_file returns local_target
ToNetcdfClose ==
    /\ pw_pc = "writing"
    /\ pw_target.chunks = MaxChunks
    /\ pw_target' = Complete(pw_version)
    /\ pw_pc' = "returned"
    /\ UNCHANGED <<pw_version, pw_reads>>

\* to_netcdf raises while the file is open (no space left, interruption):
\* the exception leaves _process_file, which has no handler
ToNetcdfRaises ==
    /\ pw_pc = "writing"
    /\ pw_pc' = "raised"
    /\ UNCHANGED <<pw_target, pw_version, pw_reads>>

\* the next call that reaches to_netcdf for the same local_target
ProcessFileAgain ==
    /\ pw_pc \in {"returned", "raised"}
    /\ pw_pc' = "idle"
    /\ UNCHANGED <<pw_target, pw_version, pw_reads>>

\* another process opens local_target (must_update, open_file)
ReadTarget ==
    /\ Len(pw_reads) < MaxReads
    /\ pw_reads' = Append(pw_reads, pw_target)
    /\ UNCHANGED <<pw_pc, pw_target, pw_version>>

InitPWVars ==
    /\ pw_pc = "idle"
    /\ pw_target = Absent
    /\ pw_version = 0
    /\ pw_reads = <<>>

(***************************************************************************)
(* mergedownloader: the calls made on DateProcessor                        *)
(***************************************************************************)
\* the members of DateFrequency
DateFrequency == {"DAILY", "MONTHLY", "YEARLY", "HOURLY"}

\* the moments the calls are made at: 2023-01-20, 2023-01-31 and 2023-03-30
DPNows ==
    {StartTime, DayNum(2023, 1, 31) * MinutesPerDay + 720,
     DayNum(2023, 3, 30) * MinutesPerDay + 720}

\* the dates handed to start_end_dates and last_n_months
DPDates ==
    {<<2022, 3, 31>>, <<2022, 12, 5>>, <<2023, 1, 10>>, <<2023, 1, 31>>,
     <<2023, 2, 10>>, <<2023, 3, 30>>, <<2024, 2, 10>>}

\* the start and end dates handed to dates_range, by frequency
RangeDates(freq) ==
    CASE freq = "DAILY" ->
             {<<2023, 2, 27>>, <<2023, 3, 1>>, <<2023, 3, 2>>,
              <<2023, 2, 27, 12>>, <<2023, 3, 1, 6>>}
      [] freq = "HOURLY" ->
             {<<2023, 2, 28>>, <<2023, 2, 28, 22>>, <<2023, 3, 1, 1>>, <<2023, 3, 1, 2>>}
      [] freq = "MONTHLY" ->
             {<<2023, 1, 1>>, <<2023, 1, 15>>, <<2023, 1, 31>>,
              <<2023, 3, 10>>, <<2023, 3, 31>>, <<2023, 4, 1>>}
      [] freq = "YEARLY" ->
             {<<2024, 1, 1>>, <<2024, 2, 29>>, <<2026, 1, 1>>, <<2026, 2, 28>>,
              <<2028, 2, 29>>}

\* the start and end dates handed to create_monthly_periods
PeriodDates ==
    {<<2020, 11, 30>>, <<2021, 1, 1>>, <<2021, 1, 31>>, <<2021, 5, 15>>,
     <<2021, 6, 30>>, <<2021, 12, 1>>}

\* DateProcessor.start_end_dates(date)
DPStartEndDates ==
    /\ \E date \in DPDates :
          dp_call' = [op |-> "start_end_dates", args |-> <<date>>,
                      result |-> start_end_dates(date)]
    /\ UNCHANGED dp_now

\* DateProcessor.dates_range(start_date, end_date, date_freq)
DPDatesRange ==
    /\ \E freq \in DateFrequency :
       \E start_date \in RangeDates(freq), end_date \in RangeDates(freq) :
          dp_call' = [op |-> "dates_range", args |-> <<start_date, end_date, freq>>,
                      result |-> dates_range(start_date, end_date, freq)]
    /\ UNCHANGED dp_now

\* DateProcessor.create_monthly_periods(start_date, end_date, month_step)
DPCreateMonthlyPeriods ==
    /\ \E start_date \in PeriodDates, end_date \in PeriodDates, month_step \in 1..MaxMonthStep :
          dp_call' = [op |-> "create_monthly_periods",
                      args |-> <<start_date, end_date, month_step>>,
                      result |-> create_monthly_periods(start_date, end_date, month_step)]
    /\ UNCHANGED dp_now

\* DateProcessor.last_n_months(date, n) as SPIProcessor.inform_dependencies
\* uses it: the two "year-month" texts are handed to the monthly dates_range,
\* which parses them
DPLastNMonths ==
    /\ \E date \in DPDates, n \in 1..MaxLookback :
       \E window \in {last_n_months(date, n)} :
          dp_call' = [op |-> "last_n_months", args |-> <<date, n>>,
                      result |-> [window |-> window,
                                  dates |-> dates_range(
                                      parse_year_month(window[1][1], window[1][2], dp_now),
                                      parse_year_month(window[2][1], window[2][2], dp_now),
                                      "MONTHLY")]]
    /\ UNCHANGED dp_now

InitDPVars ==
    /\ dp_now = StartTime
    /\ dp_call = NoCall

(***************************************************************************)
(* mergedownloader: the text of the local paths                            *)
(***************************************************************************)
\* str(k).zfill(2), f"{k:02d}" and strftime's %m and %d
zfill2(k) == IF k < 10 THEN "0" \o ToString(k) ELSE ToString(k)

\* DateProcessor.month_abrev: strftime("%b").lower()
month_abrev(m) ==
    <<"jan", "feb", "mar", "apr", "may", "jun",
      "jul", "aug", "sep", "oct", "nov", "dec">>[m]

\* a change of SPIProcessor.filename: no separator between "SPI" and n
SPIProcessor_filename_unseparated(n, y, m) ==
    "SPI" \o ToString(n) \o "_" \o ToString(y) \o "-" \o zfill2(m) \o ".nc"
\* SPIProcessor.filename: f"SPI_{n}_{month_year}.nc", month_year being "%Y-%m"
SPIProcessor_filename(n, y, m) ==
    "SPI_" \o ToString(n) \o "_" \o ToString(y) \o "-" \o zfill2(m) \o ".nc"

\* the text foldername returns, from the pattern and the numbers of the path
foldername_text(path) ==
    CASE path.folder = "DAILY/%Y/%m" ->
           "DAILY/" \o ToString(path.fargs[1]) \o "/" \o zfill2(path.fargs[2])
      [] path.folder = "MONTHLY_STATS_N/MONTHLY_STATS_%n" ->
           "MONTHLY_STATS_N/MONTHLY_STATS_" \o ToString(path.fargs[1])
      [] path.folder = "MONTHLY_SPI%n" -> "MONTHLY_SPI" \o ToString(path.fargs[1])
      [] OTHER -> path.folder

\* the text filename returns, from the pattern and the numbers of the path
filename_text(path) ==
    LET a == path.args IN
    CASE path.file = "MERGE_CPTEC_%Y%m%d.grib2" ->
           "MERGE_CPTEC_" \o ToString(a[1]) \o zfill2(a[2]) \o zfill2(a[3]) \o ".grib2"
      [] path.file = "MERGE_CPTEC_12Z%d%b.nc" ->
           "MERGE_CPTEC_12Z" \o zfill2(a[1]) \o month_abrev(a[2]) \o ".nc"
      [] path.file = "MERGE_CPTEC_acum_%b_%Y.nc" ->
           "MERGE_CPTEC_acum_" \o month_abrev(a[1]) \o "_" \o ToString(a[2]) \o ".nc"
      [] path.file = "MERGE_CPTEC_acum_%b.nc" ->
           "MERGE_CPTEC_acum_" \o month_abrev(a[1]) \o ".nc"
      [] path.file = "MERGE_CPTEC_acum_%Y.nc" ->
           "MERGE_CPTEC_acum_" \o ToString(a[1]) \o ".nc"
      [] path.file = "Monthly_AVG_%b_N%n.nc" ->
           "Monthly_AVG_" \o month_abrev(a[1]) \o "_N" \o ToString(a[2]) \o ".nc"
      [] path.file = "Monthly_STD_%b_N%n.nc" ->
           "Monthly_STD_" \o month_abrev(a[1]) \o "_N" \o ToString(a[2]) \o ".nc"
      [] path.file = "SPI1_%Y-%m.nc" ->
           "SPI1_" \o ToString(a[1]) \o "-" \o zfill2(a[2]) \o ".nc"
      [] path.file = "SPI_%n_%Y-%m.nc" -> SPIProcessor_filename(a[1], a[2], a[3])
      [] OTHER -> path.file

\* the text of Downloader.local_target below the output folder: the folder
\* of the parser joined with the file name
local_target_text(datatype, date, n) ==
    LET path == local_target(datatype, date, n)
    IN foldername_text(path) \o "/" \o filename_text(path)

\* the keyword argument n a request may carry: the parsers that use n raise
\* without it, the other processors take and ignore it, the fetch types are
\* asked without
TargetN(datatype) ==
    IF datatype \in NeedsN THEN {1, 2, 11}
    ELSE IF datatype \in ProcessorTypes THEN {0, 1, 2}
    ELSE {0}

TargetDates ==
    {<<2022, 12, 1>>, <<2022, 12, 20>>, <<2023, 12, 1>>, <<2022, 1, 11>>, <<2022, 11, 1>>}

\* the requests Downloader.local_target is called with
TargetRequests ==
    {r \in [datatype : InpeParsers, date : TargetDates, n : {0, 1, 2, 11}] :
        r.n \in TargetN(r.datatype)}

\* Downloader.local_target(date, datatype, n=n); the result of the call
\* before is kept beside it
LocalTarget ==
    \E r \in TargetRequests :
       /\ lt_prev' = lt_last
       /\ lt_last' = [op |-> "local_target", datatype |-> r.datatype, date |-> r.date,
                      n |-> r.n, text |-> local_target_text(r.datatype, r.date, r.n)]

InitLTVars ==
    /\ lt_prev = NoCall
    /\ lt_last = NoCall

(***************************************************************************)
(* mergedownloader: FileDownloader._download_http_file                     *)
(***************************************************************************)
DownloadMode == {"FORCE", "UPDATE", "NO_UPDATE"}

\* the time the first call of a session is made
HttpStartTime == StartTime

\* what the server does with the request: it answers with a Last-Modified
\* header, it answers without one, urlopen raises, or response.read() raises
HttpResponses == {"ok", "no_last_modified", "urlopen_raises", "read_raises"}

\* the offsets from UTC of the zones the program runs in, in minutes
ZoneOffsets == {0, -180}

\* datetime.strptime(remote_dt_str, "%a, %d %b %Y %H:%M:%S %Z"): the naive
\* datetime with the fields of the header, which are those of the GMT time
strptime(last_modified) == last_modified

\* time.mktime(remote_dt.timetuple()): the fields are read as local time
mktime(naive, tz) == naive - tz

NoLocalFile == [exists |-> FALSE, mtime |-> 0, version |-> 0, whole |-> FALSE]

\* FileDownloader._download_http_file(remote_file, local_path): the local
\* file after the call, the number of requests made, whether the file was
\* opened for writing, and how the call ended
_download_http_file(mode, tz, local, remote, resp, now) ==
    IF local.exists /\ mode = "NO_UPDATE"
    THEN [local |-> local, requests |-> 0, wrote |-> FALSE, kind |-> "return", exc |-> "-"]
    ELSE IF resp = "urlopen_raises"
    THEN [local |-> local, requests |-> 1, wrote |-> FALSE, kind |-> "raise", exc |-> "URLError"]
    ELSE IF resp = "no_last_modified"
    THEN [local |-> local, requests |-> 1, wrote |-> FALSE, kind |-> "raise", exc |-> "TypeError"]
    ELSE LET remote_mtime == mktime(strptime(remote.last_modified), tz) IN
         IF local.exists /\ mode = "UPDATE" /\ local.mtime = remote_mtime
         THEN [local |-> local, requests |-> 1, wrote |-> FALSE, kind |-> "return", exc |-> "-"]
         ELSE IF resp = "read_raises"
         THEN [local |-> [exists |-> TRUE, mtime |-> now, version |-> remote.version,
                          whole |-> FALSE],
               requests |-> 1, wrote |-> TRUE, kind |-> "raise", exc |-> "IncompleteRead"]
         ELSE [local |-> [exists |-> TRUE, mtime |-> remote_mtime,
                          version |-> remote.version, whole |-> TRUE],
               requests |-> 1, wrote |-> TRUE, kind |-> "return", exc |-> "-"]

\* the record of a call of _download_http_file
HttpCallRecord(r, resp, repeat) ==
    [op |-> "_download_http_file", resp |-> resp,
     requests |-> r.requests, wrote |-> r.wrote, kind |-> r.kind, exc |-> r.exc,
     before |-> hf_local, remote |-> hf_remote,
     repeat |-> repeat,
     prev_wrote |-> IF repeat THEN hf_call.wrote ELSE FALSE,
     prev_kind |-> IF repeat THEN hf_call.kind ELSE "-"]

DoDownloadHttpFile(resp, repeat) ==
    \E r \in {_download_http_file(hf_mode, hf_tz, hf_local, hf_remote, resp, hf_now)} :
       /\ hf_local' = r.local
       /\ hf_call' = HttpCallRecord(r, resp, repeat)
       /\ hf_now' = hf_now + 1
       /\ UNCHANGED <<hf_mode, hf_tz, hf_remote>>

\* FileDownloader._download_http_file(remote_file, local_path)
DownloadHttpFile ==
    /\ hf_call.op = "none"
    /\ hf_now < HttpStartTime + MaxHttpSteps
    /\ \E resp \in HttpResponses : DoDownloadHttpFile(resp, FALSE)

\* _download_http_file called again at once, the remote file being unchanged
DownloadHttpFileAgain ==
    /\ hf_call.op # "none"
    /\ ~hf_call.repeat
    /\ \E resp \in HttpResponses : DoDownloadHttpFile(resp, TRUE)

\* the caller takes the result of the call
HttpReturn ==
    /\ hf_call.op # "none"
    /\ hf_call' = NoCall
    /\ UNCHANGED <<hf_mode, hf_tz, hf_local, hf_remote, hf_now>>

\* the provider replaces the remote file
RemoteModified ==
    /\ hf_call.op = "none"
    /\ hf_now < HttpStartTime + MaxHttpSteps
    /\ hf_remote' = [last_modified |-> hf_now, version |-> hf_remote.version + 1]
    /\ hf_now' = hf_now + 1
    /\ UNCHANGED <<hf_mode, hf_tz, hf_local, hf_call>>

\* how the retry loop of download_file sees a call of _download_http_file: it
\* returned, or it raised an exception that is neither EOFError nor HTTPError
http_outcome(d) == IF d.kind = "return" THEN "ok" ELSE "error"

\* FileDownloader.download_file(remote_file, local_folder, retrials) of an
\* HTTP downloader, the loop from `attempt` on: resps[i] is what the server
\* does with the request of the i-th attempt
RECURSIVE download_file_via_http_from(_, _, _, _, _, _, _, _)
download_file_via_http_from(attempt, retrials, mode, tz, local, remote, resps, now) ==
    IF attempt >= retrials
    THEN [kind |-> "return", val |-> "local_path", local |-> local, attempts |-> attempt]
    ELSE Bind(_download_http_file(mode, tz, local, remote, resps[attempt + 1], now),
              LAMBDA d :
         Bind(loop_iteration(attempt, retrials, http_outcome(d)), LAMBDA r :
         IF r.kind = "continue"
         THEN download_file_via_http_from(attempt + 1, retrials, mode, tz, d.local,
                                          remote, resps, now)
         ELSE [kind |-> IF r.kind = "break" THEN "return" ELSE r.kind, val |-> r.val,
               local |-> d.local, attempts |-> attempt + 1]))

download_file_via_http(retrials, mode, tz, local, remote, resps, now) ==
    download_file_via_http_from(0, retrials, mode, tz, local, remote, resps, now)

\* FileDownloader.download_file(remote_file, local_folder, retrials)
DownloadFileViaHttp ==
    /\ hf_call.op = "none"
    /\ hf_now < HttpStartTime + MaxHttpSteps
    /\ \E retrials \in 0..MaxHttpRetrials, resps \in [1..MaxHttpRetrials -> HttpResponses] :
          \E r \in {download_file_via_http(retrials, hf_mode, hf_tz, hf_local, hf_remote,
                                           resps, hf_now)} :
             /\ hf_local' = r.local
             /\ hf_call' = [op |-> "download_file", retrials |-> retrials,
                            resps |-> resps, kind |-> r.kind, val |-> r.val,
                            attempts |-> r.attempts, before |-> hf_local]
    /\ hf_now' = hf_now + 1
    /\ UNCHANGED <<hf_mode, hf_tz, hf_remote>>

\* the remote file at the start, and the local files a download may find: none,
\* a copy that kept the time of the remote file, and an older file
FirstRemote == [last_modified |-> HttpStartTime - 100, version |-> 1]
FirstLocals ==
    {NoLocalFile,
     [exists |-> TRUE, mtime |-> FirstRemote.last_modified, version |-> 1, whole |-> TRUE],
     [exists |-> TRUE, mtime |-> HttpStartTime - 200, version |-> 0, whole |-> TRUE]}

InitHFVars ==
    /\ hf_mode = "UPDATE"
    /\ hf_tz = 0
    /\ hf_local = NoLocalFile
    /\ hf_remote = FirstRemote
    /\ hf_now = HttpStartTime
    /\ hf_call = NoCall

(***************************************************************************)
(* mergedownloader: FTPUtil and BaseParser.get_file                        *)
(***************************************************************************)
\* the default of the retrials argument of open_connection and download_ftp_file
FtpRetrials == 5

\* the time the files of a session are written
FtpWriteTime == StartTime

\* what one connection attempt does: it succeeds, the name of the server is
\* not resolved (socket.gaierror), or it raises another exception
ConnectOutcomes == {"ok", "gaierror", "error"}

\* the try/except of open_connection for one attempt
connection_attempt_retrying_gaierror(outcome) ==
    IF outcome = "ok" THEN "return" ELSE "continue"

connection_attempt(outcome) ==
    CASE outcome = "ok" -> "return"
      [] outcome = "gaierror" -> "raise"
      [] OTHER -> "continue"

\* FTPUtil.open_connection(server, retrials), the loop from `attempt` on:
\* outcomes[i] is what the i-th attempt does
RECURSIVE open_connection_from(_, _, _)
open_connection_from(attempt, retrials, outcomes) ==
    IF attempt >= retrials
    THEN [kind |-> "raise", exc |-> "Exception", attempts |-> attempt, conn |-> 0]
    ELSE Bind(connection_attempt(outcomes[attempt + 1]), LAMBDA step :
         CASE step = "return" ->
                 [kind |-> "return", exc |-> "-", attempts |-> attempt + 1,
                  conn |-> attempt + 1]
           [] step = "raise" ->
                 [kind |-> "raise", exc |-> "gaierror", attempts |-> attempt + 1,
                  conn |-> 0]
           [] OTHER -> open_connection_from(attempt + 1, retrials, outcomes))

open_connection(retrials, outcomes) == open_connection_from(0, retrials, outcomes)

\* FTPUtil.get_connection(): the connection at hand if it still answers,
\* otherwise a new one
get_connection(link) ==
    IF link.is_connected
    THEN [kind |-> "return", exc |-> "-", attempts |-> 0, conn |-> 0]
    ELSE open_connection(FtpRetrials, link.outcomes)

\* the states of the link a call may find: the connection answers, it is
\* closed and the server accepts a new one at once or at the second attempt,
\* it is closed and no connection can be made, the name is not resolved
FtpLinks ==
    {[is_connected |-> TRUE,  outcomes |-> [i \in 1..FtpRetrials |-> "ok"]],
     [is_connected |-> FALSE, outcomes |-> [i \in 1..FtpRetrials |->
                                              IF i = 1 THEN "error" ELSE "ok"]],
     [is_connected |-> FALSE, outcomes |-> [i \in 1..FtpRetrials |-> "error"]],
     [is_connected |-> FALSE, outcomes |-> [i \in 1..FtpRetrials |-> "gaierror"]]}

\* what the retrievals do: the first k fail and the next ones complete
RetrievalRuns ==
    {[i \in 1..FtpRetrials |-> IF i <= k THEN "fails" ELSE "ok"] : k \in 0..FtpRetrials}

\* parser.parse(remote_time_str[4:]): the naive datetime with the fields of
\* the MDTM answer
parser_parse(mdtm) == mdtm

\* datetime.timestamp() of a naive datetime: its fields are read as local time
timestamp(naive, tz) == naive - tz

\* datetime.datetime.fromtimestamp(st_mtime): the naive local time
fromtimestamp(ts, tz) == ts + tz

NoFtpFile == [exists |-> FALSE, size |-> 0, mtime |-> 0, whole |-> FALSE]

\* open(local_path, "wb"): the file is created or truncated
open_wb == [exists |-> TRUE, size |-> 0, mtime |-> FtpWriteTime, whole |-> FALSE]

\* the retrieval loop of download_ftp_file from `attempt` on
RECURSIVE retrieve_from(_, _, _, _, _)
retrieve_from(attempt, retrials, file, remote, env) ==
    IF attempt >= retrials
    THEN [kind |-> "exhausted", exc |-> "-", file |-> file, attempts |-> attempt,
          completed |-> FALSE]
    ELSE IF env.retr[attempt + 1] = "ok"
    THEN [kind |-> "break", exc |-> "-",
          file |-> [open_wb EXCEPT !.size = remote.size, !.whole = TRUE],
          attempts |-> attempt + 1, completed |-> TRUE]
    ELSE Bind(get_connection(env.again), LAMBDA c :
         IF c.kind = "raise"
         THEN [kind |-> "raise", exc |-> c.exc, file |-> open_wb,
               attempts |-> attempt + 1, completed |-> FALSE]
         ELSE retrieve_from(attempt + 1, retrials, open_wb, remote, env))

\* FTPUtil.download_ftp_file(remote_file, local_folder, retrials=retrials):
\* the local file after the call, the number of retrievals made, whether one
\* of them completed, and how the call ended
download_ftp_file(retrials, local, remote, env) ==
    Bind(get_connection(env.first), LAMBDA c :
    IF c.kind = "raise"
    THEN [kind |-> "raise", exc |-> c.exc, file |-> local, attempts |-> 0,
          completed |-> FALSE]
    ELSE Bind(retrieve_from(0, retrials, local, remote, env), LAMBDA r :
         IF r.kind = "raise"
         THEN r
         ELSE IF env.mdtm = "raises"
         THEN [r EXCEPT !.kind = "raise", !.exc = "error_perm"]
         ELSE IF ~r.file.exists
         THEN [r EXCEPT !.kind = "raise", !.exc = "FileNotFoundError"]
         ELSE [r EXCEPT !.kind = "return",
                        !.file.mtime = timestamp(parser_parse(remote.mdtm), env.tz)]))

\* FTPUtil.get_ftp_file_info(remote_file)
get_ftp_file_info(remote) == [datetime |-> parser_parse(remote.mdtm), size |-> remote.size]

\* OSUtil.get_local_file_info(file_path)
get_local_file_info(file, tz) ==
    [datetime |-> fromtimestamp(file.mtime, tz), size |-> file.size]

\* FTPUtil.file_changed(remote_file, file_info)
file_changed(remote, file_info) ==
    /\ get_ftp_file_info(remote).size = file_info.size
    /\ get_ftp_file_info(remote).datetime = file_info.datetime

\* BaseParser.is_downloaded(date, local_folder)
is_downloaded(avoid_update, local, remote, env) ==
    IF ~local.exists
    THEN [kind |-> "return", exc |-> "-", value |-> FALSE, asked |-> FALSE]
    ELSE IF avoid_update
    THEN [kind |-> "return", exc |-> "-", value |-> TRUE, asked |-> FALSE]
    ELSE Bind(get_connection(env.first), LAMBDA c :
         IF c.kind = "raise"
         THEN [kind |-> "raise", exc |-> c.exc, value |-> FALSE, asked |-> TRUE]
         ELSE Bind(file_changed(remote, get_local_file_info(local, env.tz)),
                   LAMBDA changed :
              [kind |-> "return", exc |-> "-",
               value |-> IF changed THEN FALSE ELSE TRUE, asked |-> TRUE]))

\* BaseParser.download_file(date, local_folder)
BaseParser_download_file(local, remote, env) ==
    download_ftp_file(FtpRetrials, local, remote, env)

\* BaseParser.get_file(date, local_folder, force_download): how the call
\* ended, the local file after it and whether download_file was called
BaseParser_get_file(force_download, avoid_update, local, remote, env) ==
    IF force_download
    THEN BaseParser_download_file(local, remote, env) @@ [downloads |-> TRUE]
    ELSE Bind(is_downloaded(avoid_update, local, remote, env), LAMBDA d :
         IF d.kind = "raise"
         THEN [kind |-> "raise", exc |-> d.exc, file |-> local, attempts |-> 0,
               completed |-> FALSE, downloads |-> FALSE]
         ELSE IF ~d.value
         THEN BaseParser_download_file(local, remote, env) @@ [downloads |-> TRUE]
         ELSE [kind |-> "return", exc |-> "-", file |-> local, attempts |-> 0,
               completed |-> FALSE, downloads |-> FALSE])

\* the remote file at the start and what the provider may replace it with:
\* a file of another size, and a file of the same size written later
FtpFirstRemote == [size |-> 10, mdtm |-> FtpWriteTime - 100]
FtpRemotes ==
    {FtpFirstRemote,
     [size |-> 20, mdtm |-> FtpWriteTime - 100],
     [size |-> 10, mdtm |-> FtpWriteTime - 50]}

\* the local files a call may find at the start: none, and a copy that kept
\* the size and the time of the remote file
FtpFirstLocals(tz) ==
    {NoFtpFile,
     [exists |-> TRUE, size |-> FtpFirstRemote.size,
      mtime |-> timestamp(parser_parse(FtpFirstRemote.mdtm), tz), whole |-> TRUE]}

\* the values of the retrials argument the calls are made with
RetrialsArgs == {0, 2, FtpRetrials}

\* what the calls of a step meet
FtpEnvs ==
    [tz : {ftp_tz}, first : FtpLinks, again : FtpLinks, retr : RetrievalRuns,
     mdtm : {"ok", "raises"}]

\* FTPUtil.open_connection(server, retrials)
OpenConnection ==
    /\ ftp_call.op = "none"
    /\ \E retrials \in 0..MaxFtpRetrials, outcomes \in [1..MaxFtpRetrials -> ConnectOutcomes] :
          \E r \in {open_connection(retrials, outcomes)} :
             ftp_call' = [op |-> "open_connection", retrials |-> retrials,
                          outcomes |-> outcomes, kind |-> r.kind, exc |-> r.exc,
                          attempts |-> r.attempts, conn |-> r.conn]
    /\ UNCHANGED <<ftp_tz, ftp_local, ftp_remote>>

\* FTPUtil.download_ftp_file(remote_file, local_folder, retrials=retrials)
DownloadFtpFile ==
    /\ ftp_call.op = "none"
    /\ \E retrials \in RetrialsArgs, env \in FtpEnvs :
          \E r \in {download_ftp_file(retrials, ftp_local, ftp_remote, env)} :
             /\ ftp_local' = r.file
             /\ ftp_call' = [op |-> "download_ftp_file", retrials |-> retrials,
                             env |-> env, kind |-> r.kind, exc |-> r.exc,
                             attempts |-> r.attempts, completed |-> r.completed,
                             before |-> ftp_local]
    /\ UNCHANGED <<ftp_tz, ftp_remote>>

\* BaseParser.get_file(date, local_folder, force_download) of a parser built
\* with avoid_update
BaseParserGetFile ==
    /\ ftp_call.op = "none"
    /\ \E force_download \in BOOLEAN, avoid_update \in BOOLEAN, env \in FtpEnvs :
          \E r \in {BaseParser_get_file(force_download, avoid_update, ftp_local,
                                        ftp_remote, env)} :
             /\ ftp_local' = r.file
             /\ ftp_call' = [op |-> "get_file", force_download |-> force_download,
                             avoid_update |-> avoid_update, env |-> env,
                             kind |-> r.kind, exc |-> r.exc, attempts |-> r.attempts,
                             completed |-> r.completed, downloads |-> r.downloads,
                             before |-> ftp_local]
    /\ UNCHANGED <<ftp_tz, ftp_remote>>

\* the caller takes the result of the call
FtpReturn ==
    /\ ftp_call.op # "none"
    /\ ftp_call' = NoCall
    /\ UNCHANGED <<ftp_tz, ftp_local, ftp_remote>>

\* the provider replaces the remote file
FtpRemoteModified ==
    /\ ftp_call.op = "none"
    /\ \E remote \in FtpRemotes \ {ftp_remote} : ftp_remote' = remote
    /\ UNCHANGED <<ftp_tz, ftp_local, ftp_call>>

InitFTPVars ==
    /\ ftp_tz = 0
    /\ ftp_local = NoFtpFile
    /\ ftp_remote = FtpFirstRemote
    /\ ftp_call = NoCall

(***************************************************************************)
(* mergedownloader: the loops of DateProcessor, one iteration at a time    *)
(***************************************************************************)
\* the start and end dates of the loops: dates of the first year of the
\* calendar, from which a loop that walks backwards meets the first date a
\* datetime can hold within a few iterations
LoopDates == {<<1, 1, 31>>, <<1, 2, 1>>, <<1, 3, 15>>, <<1, 5, 1>>}

\* date + relativedelta(months=k) raises ValueError when the year of the
\* result is before datetime.MINYEAR
add_months_fails(date, k) == add_months(date, k)[1] < 1

\* one iteration of the while loop of create_monthly_periods: the loop is
\* left, by the test of the while, by break or by an exception, or
\* current_date moves on by month_step months
create_monthly_periods_step(current_date, final_date, month_step) ==
    IF ~date_le(current_date, final_date)
    THEN [pc |-> "returned", current_date |-> current_date, appended |-> FALSE]
    ELSE IF add_months_fails(current_date, month_step - 1)
    THEN [pc |-> "raised", current_date |-> current_date, appended |-> FALSE]
    ELSE IF ~date_le(add_months(current_date, month_step - 1), final_date)
    THEN [pc |-> "returned", current_date |-> current_date, appended |-> FALSE]
    ELSE IF add_months_fails(current_date, month_step)
    THEN [pc |-> "raised", current_date |-> current_date, appended |-> TRUE]
    ELSE [pc |-> "loop", current_date |-> add_months(current_date, month_step),
          appended |-> TRUE]

\* one iteration of the while loop of dates_range
dates_range_step(current_date, final_date, freq) ==
    IF ~date_le(current_date, final_date)
    THEN [pc |-> "returned", current_date |-> current_date, appended |-> FALSE]
    ELSE [pc |-> "loop", current_date |-> step_date(current_date, freq),
          appended |-> TRUE]

\* DateProcessor.create_monthly_periods(start_date, end_date, month_step) is called
CallCreateMonthlyPeriods ==
    /\ tl_pc = "idle"
    /\ \E start_date \in LoopDates, end_date \in LoopDates,
          month_step \in (-MaxMonthStep)..MaxMonthStep :
          /\ tl_current' = start_date
          /\ tl_final' = end_date
          /\ tl_step' = [month_step |-> month_step, freq |-> "-"]
    /\ tl_op' = "create_monthly_periods"
    /\ tl_pc' = "loop"
    /\ tl_len' = 0

\* DateProcessor.dates_range(start_date, end_date, freq) is called
CallDatesRange ==
    /\ tl_pc = "idle"
    /\ \E start_date \in LoopDates, end_date \in LoopDates, freq \in DateFrequency :
          /\ tl_current' = start_date
          /\ tl_final' = end_date
          /\ tl_step' = [month_step |-> 0, freq |-> freq]
    /\ tl_op' = "dates_range"
    /\ tl_pc' = "loop"
    /\ tl_len' = 0

\* the step of the loop that is running
LoopStep ==
    /\ tl_pc = "loop"
    /\ \E r \in {IF tl_op = "create_monthly_periods"
                 THEN create_monthly_periods_step(tl_current, tl_final, tl_step.month_step)
                 ELSE dates_range_step(tl_current, tl_final, tl_step.freq)} :
          /\ tl_pc' = r.pc
          /\ tl_current' = r.current_date
          /\ tl_len' = IF r.appended THEN (tl_len + 1) % MaxListLen ELSE tl_len
    /\ UNCHANGED <<tl_op, tl_final, tl_step>>

\* the caller takes the result of the call
LoopReturn ==
    /\ tl_pc \in {"returned", "raised"}
    /\ tl_pc' = "idle"
    /\ tl_op' = "-"
    /\ tl_current' = <<1, 1, 1>>
    /\ tl_final' = <<1, 1, 1>>
    /\ tl_step' = [month_step |-> 0, freq |-> "-"]
    /\ tl_len' = 0

InitTLVars ==
    /\ tl_pc = "idle"
    /\ tl_op = "-"
    /\ tl_current = <<1, 1, 1>>
    /\ tl_final = <<1, 1, 1>>
    /\ tl_step = [month_step |-> 0, freq |-> "-"]
    /\ tl_len = 0

(***************************************************************************)
(* Specifications                                                          *)
(***************************************************************************)
InitDP ==
    /\ InitFDVars
    /\ InitMAVars
    /\ InitEngVars
    /\ InitPWVars
    /\ InitHFVars
    /\ InitLTVars
    /\ InitFTPVars
    /\ InitTLVars
    /\ dp_now \in DPNows
    /\ dp_call = NoCall

NextDP ==
    \/ DPStartEndDates /\ UNCHANGED <<fd_vars, ma_vars, eng_vars, pw_vars, hf_vars, lt_vars, ftp_vars, tl_vars>>
    \/ DPDatesRange /\ UNCHANGED <<fd_vars, ma_vars, eng_vars, pw_vars, hf_vars, lt_vars, ftp_vars, tl_vars>>
    \/ DPCreateMonthlyPeriods /\ UNCHANGED <<fd_vars, ma_vars, eng_vars, pw_vars, hf_vars, lt_vars, ftp_vars, tl_vars>>
    \/ DPLastNMonths /\ UNCHANGED <<fd_vars, ma_vars, eng_vars, pw_vars, hf_vars, lt_vars, ftp_vars, tl_vars>>

SpecDP == InitDP /\ [][NextDP]_vars

InitPW ==
    /\ InitFDVars
    /\ InitMAVars
    /\ InitEngVars
    /\ InitDPVars
    /\ InitHFVars
    /\ InitLTVars
    /\ InitFTPVars
    /\ InitTLVars
    /\ pw_pc = "idle"
    /\ pw_target \in {Absent, Complete(0)}
    /\ pw_version = 0
    /\ pw_reads = <<>>

NextPW ==
    \/ ToNetcdfOpen /\ UNCHANGED <<fd_vars, ma_vars, eng_vars, dp_vars, hf_vars, lt_vars, ftp_vars, tl_vars>>
    \/ ToNetcdfWrite /\ UNCHANGED <<fd_vars, ma_vars, eng_vars, dp_vars, hf_vars, lt_vars, ftp_vars, tl_vars>>
    \/ ToNetcdfClose /\ UNCHANGED <<fd_vars, ma_vars, eng_vars, dp_vars, hf_vars, lt_vars, ftp_vars, tl_vars>>
    \/ ToNetcdfRaises /\ UNCHANGED <<fd_vars, ma_vars, eng_vars, dp_vars, hf_vars, lt_vars, ftp_vars, tl_vars>>
    \/ ProcessFileAgain /\ UNCHANGED <<fd_vars, ma_vars, eng_vars, dp_vars, hf_vars, lt_vars, ftp_vars, tl_vars>>
    \/ ReadTarget /\ UNCHANGED <<fd_vars, ma_vars, eng_vars, dp_vars, hf_vars, lt_vars, ftp_vars, tl_vars>>

SpecPW == InitPW /\ [][NextPW]_vars

InitFD ==
    InitFDVars /\ InitMAVars /\ InitEngVars /\ InitPWVars /\ InitDPVars /\ InitHFVars
    /\ InitLTVars
    /\ InitFTPVars
    /\ InitTLVars

NextFD ==
    \/ FDCall /\ UNCHANGED <<ma_vars, eng_vars, pw_vars, dp_vars, hf_vars, lt_vars, ftp_vars, tl_vars>>
    \/ FDAttempt /\ UNCHANGED <<ma_vars, eng_vars, pw_vars, dp_vars, hf_vars, lt_vars, ftp_vars, tl_vars>>
    \/ FDLoopEnd /\ UNCHANGED <<ma_vars, eng_vars, pw_vars, dp_vars, hf_vars, lt_vars, ftp_vars, tl_vars>>
    \/ FDReset /\ UNCHANGED <<ma_vars, eng_vars, pw_vars, dp_vars, hf_vars, lt_vars, ftp_vars, tl_vars>>

SpecFD == InitFD /\ [][NextFD]_vars

InitMA ==
    /\ InitFDVars
    /\ InitEngVars
    /\ InitPWVars
    /\ InitDPVars
    /\ InitHFVars
    /\ InitLTVars
    /\ InitFTPVars
    /\ InitTLVars
    /\ ma_date \in ReqMonths
    /\ ma_file \in {NoFile} \cup ForeignFiles
    /\ ma_now = StartTime
    /\ ma_ticks = 0
    /\ ma_call = NoCall

NextMA ==
    \/ MAGetFile /\ UNCHANGED <<fd_vars, eng_vars, pw_vars, dp_vars, hf_vars, lt_vars, ftp_vars, tl_vars>>
    \/ MATick /\ UNCHANGED <<fd_vars, eng_vars, pw_vars, dp_vars, hf_vars, lt_vars, ftp_vars, tl_vars>>

SpecMA == InitMA /\ [][NextMA]_vars

Init ==
    /\ InitFDVars
    /\ InitMAVars
    /\ InitPWVars
    /\ InitDPVars
    /\ InitHFVars
    /\ InitLTVars
    /\ InitFTPVars
    /\ InitTLVars
    /\ focus \in {f \in Sessions : f.n \in ReqN(f.datatype)}
    /\ _parsers \in Registries(focus.datatype)
    /\ stats_done = FALSE
    /\ disk \in IF focus.datatype \in NeedsN /\ focus.n = 1
                THEN {EmptyStore, StatsFiles(1, 2023)}
                ELSE IF _parsers # InpeParsers
                THEN {EmptyStore, EarlierArtifact(focus.datatype)}
                ELSE {EmptyStore}
    /\ clock = StartTime
    /\ ticks = 0
    /\ call = NoCall

Next ==
    \/ GetFile /\ UNCHANGED <<fd_vars, ma_vars, pw_vars, dp_vars, hf_vars, lt_vars, ftp_vars, tl_vars>>
    \/ GetFileAgain /\ UNCHANGED <<fd_vars, ma_vars, pw_vars, dp_vars, hf_vars, lt_vars, ftp_vars, tl_vars>>
    \/ GetFiles /\ UNCHANGED <<fd_vars, ma_vars, pw_vars, dp_vars, hf_vars, lt_vars, ftp_vars, tl_vars>>
    \/ GetRange /\ UNCHANGED <<fd_vars, ma_vars, pw_vars, dp_vars, hf_vars, lt_vars, ftp_vars, tl_vars>>
    \/ Return /\ UNCHANGED <<fd_vars, ma_vars, pw_vars, dp_vars, hf_vars, lt_vars, ftp_vars, tl_vars>>
    \/ Tick /\ UNCHANGED <<fd_vars, ma_vars, pw_vars, dp_vars, hf_vars, lt_vars, ftp_vars, tl_vars>>

Spec == Init /\ [][Next]_vars

(***************************************************************************)
(* Properties of Downloader.get_files / get_file (under Spec)              *)
(***************************************************************************)
\* the log entries of a call that name method ev
Calls(ev) == {i \in 1..Len(call.log) : call.log[i].ev = ev}

\* the first thing a get_file call did was to ask must_update, which said res
MustUpdateSaid(res) ==
    /\ call.op = "get_file"
    /\ Len(call.log) >= 1
    /\ call.log[1].ev = "must_update"
    /\ call.log[1].res = res

\* C1: get_files returns a list with one entry per date, in the order of the
\* dates; entry i is the path get_file returned for dates[i], or None when
\* that call raised (or returned None); get_files itself never raises.
C1_get_files_one_entry_per_date ==
    call.op = "get_files" =>
        /\ call.kind = "list"
        /\ Len(call.outcomes) = Len(call.dates)
        /\ Len(call.files) = Len(call.dates)
        /\ \A i \in 1..Len(call.dates) :
              IF call.outcomes[i].kind = "path"
              THEN /\ call.files[i] = PathEntry(call.outcomes[i].path)
                   /\ call.outcomes[i].path
                        = local_target(focus.datatype, call.dates[i], focus.n)
              ELSE call.files[i] = NoneEntry

\* C1 witness: the call for the first of two dates raised, the second date
\* was still processed and its path is in the list
C1_witness_raise_then_path ==
    /\ call.op = "get_files"
    /\ Len(call.dates) = 2
    /\ call.outcomes[1].kind = "raise"
    /\ call.outcomes[2].kind = "path"
    /\ call.files = <<NoneEntry, PathEntry(call.outcomes[2].path)>>

\* C2 as stated: for every registered data type, a get_file call repeated at
\* once after a call that returned a path returns the same path and invokes
\* neither download_file nor create_file.
C2_repeat_invokes_nothing ==
    (call.op = "get_file" /\ call.repeat /\ call.prev_kind = "path") =>
        /\ call.kind = "path"
        /\ call.path = call.prev_path
        /\ Calls("download_file") = {}
        /\ Calls("create_file") = {}

\* C2 amended: a repeated get_file call for a Processor whose must_update
\* says False returns the same path and invokes neither download_file nor
\* create_file; for a plain data type the repeated call invokes download_file
\* once more, and returns the same path when it returns a path.
C2_repeat_by_kind_of_parser ==
    (call.op = "get_file" /\ call.repeat /\ call.prev_kind = "path") =>
        IF focus.datatype \in ProcessorTypes
        THEN MustUpdateSaid("false") =>
                /\ call.kind = "path"
                /\ call.path = call.prev_path
                /\ Calls("download_file") = {}
                /\ Calls("create_file") = {}
        ELSE /\ Cardinality(Calls("download_file")) = 1
             /\ Calls("create_file") = {}
             /\ call.kind = "path" => call.path = call.prev_path

\* C2 witness: a plain data type asked for twice in succession, a path
\* returned both times, download_file invoked by the second call
C2_witness_plain_repeat ==
    /\ call.op = "get_file"
    /\ call.repeat
    /\ focus.datatype \in PlainTypes
    /\ call.prev_kind = "path"
    /\ call.kind = "path"
    /\ Calls("download_file") # {}

\* C3: when must_update of a Processor returns False, get_file returns the
\* local target, calls neither inform_dependencies nor create_file, resolves
\* no dependency, and leaves the file at the local target as it was.
C3_fresh_returns_untouched ==
    /\ MustUpdateSaid("false") =>
          /\ call.kind = "path"
          /\ call.path = local_target(focus.datatype, call.dates[1], focus.n)
          /\ Len(call.log) = 1
          /\ FileAt(disk, call.path) = call.before
    /\ call.op # "none" =>
          \A i \in 1..Len(call.log) :
             (call.log[i].ev = "must_update" /\ call.log[i].res = "false"
              /\ i < Len(call.log))
                 => call.log[i + 1].ev # "inform_dependencies"

\* C3 witness: a Processor with an artifact on disk said must_update False
\* and the path of that artifact was returned
C3_witness_fresh_artifact ==
    /\ MustUpdateSaid("false")
    /\ focus.datatype \in ProcessorTypes
    /\ call.before.exists
    /\ call.kind = "path"

\* C4 as stated: while a stale Processor is resolved, a dependency element
\* whose download fails or is not found is not fatal: create_file is still
\* called, every element of the dependency lists is still asked for, and no
\* None stands for the failed element in the lists handed to create_file.
C4_failed_dependency_contributes_nothing ==
    (/\ MustUpdateSaid("true")
     /\ focus.datatype = "MONTHLY_ACCUM_MANUAL"
     /\ \E i \in Calls("download_file") : call.log[i].res # "path") =>
        /\ Calls("create_file") # {}
        /\ \A i \in Calls("create_file") : call.log[i].nones = 0
        /\ Cardinality(Calls("download_file"))
             = monthrange(call.dates[1][1], call.dates[1][2])

(***************************************************************************)
(* Properties of FileDownloader.download_file (under SpecFD)               *)
(***************************************************************************)
fd_done == fd_pc \in {"returned", "raised"}
fd_tried(o) == \E i \in 1..Len(fd_hist) : fd_hist[i] = o

\* C5 as stated: download_file returns the local path whenever one of its
\* attempts succeeds, the last permitted one included, and raises
\* ConnectionError only when every one of the `retrials` attempts failed.
C5_success_returns_path ==
    fd_done =>
        /\ fd_tried("ok") => (fd_pc = "returned" /\ fd_ret = "local_path")
        /\ (fd_pc = "raised" /\ fd_ret = "ConnectionError") =>
              (Len(fd_hist) = fd_retrials /\ ~fd_tried("ok"))

\* C6 as stated: download_file returns None and raises nothing whenever the
\* provider answers 404, on whichever attempt, and makes no attempt after it.
C6_not_found_returns_none ==
    fd_done =>
        (fd_tried("http404") =>
            /\ fd_pc = "returned"
            /\ fd_ret = "None"
            /\ fd_hist[Len(fd_hist)] = "http404")

(***************************************************************************)
(* Properties of MonthAccumParser.get_file (under SpecMA)                  *)
(***************************************************************************)
\* get_file was called without force_download on an artifact that carries
\* the three attributes, all of them well formed
ma_checked_artifact ==
    /\ ma_call.op = "get_file"
    /\ ~ma_call.force
    /\ ma_call.before.exists
    /\ ma_call.before.readable
    /\ AttrNames \subseteq ma_call.before.attrs
    /\ ~parse_fails(ma_call.before.updated)
    /\ ~parse_fails(ma_call.before.last_day)

ma_days_differ == days_differ(ma_call.before.days, ref_days(ma_date, ma_call.now))
ma_elapsed == ma_call.now - ma_call.before.updated.v

\* C7 as stated (rule 5): an artifact whose `days` differs from the expected
\* days is not recomputed when now - updated < 30 minutes, and is recomputed
\* for every elapsed time of 30 minutes or more.
C7_incomplete_stale_after_30_minutes ==
    (ma_checked_artifact /\ ma_days_differ) =>
        (ma_call.recomputed <=> ma_elapsed >= ThirtyMinutes)

\* C8 as stated (rule 6): an artifact whose `days` equals the expected days
\* is recomputed if and only if now - updated > 2 days.
C8_complete_stale_after_two_days ==
    (ma_checked_artifact /\ ~ma_days_differ) =>
        (ma_call.recomputed <=> ma_elapsed > TwoDays)

\* C9 (rules 1-2): when the artifact does not exist, or lacks one of the
\* attributes updated, last_day, days, get_file recomputes it, whatever the
\* time it carries.
C9_missing_or_legacy_is_recomputed ==
    (/\ ma_call.op = "get_file"
     /\ \/ ~ma_call.before.exists
        \/ ~(AttrNames \subseteq ma_call.before.attrs)) =>
        /\ ma_call.decision = "update"
        /\ ma_call.recomputed

\* C9 witness: a readable artifact lacking `days`, written 10 minutes ago,
\* was recomputed by a call without force_download
C9_witness_legacy_fresh ==
    /\ ma_call.op = "get_file"
    /\ ~ma_call.force
    /\ ma_call.before.exists
    /\ ma_call.before.readable
    /\ ma_call.before.attrs = AttrNames \ {"days"}
    /\ ~parse_fails(ma_call.before.updated)
    /\ ma_elapsed < ThirtyMinutes
    /\ ma_call.recomputed
    /\ ma_file.updated = Val(ma_call.now)

\* C10 as stated (rule 7): an error while opening the artifact or while
\* parsing its attributes makes get_file recompute it, and is never raised
\* to the caller.
C10_read_error_is_recomputed ==
    (/\ ma_call.op = "get_file"
     /\ ~ma_call.force
     /\ ma_call.before.exists
     /\ \/ ~ma_call.before.readable
        \/ /\ AttrNames \subseteq ma_call.before.attrs
           /\ \/ parse_fails(ma_call.before.updated)
              \/ parse_fails(ma_call.before.last_day)) =>
        /\ ma_call.decision # "raise"
        /\ ma_call.recomputed

C13_stats_are_never_computed ==
    (/\ call.op = "get_file"
     /\ focus.datatype \in StatsTypes
     /\ ~parse_date_fails(call.dates[1])) =>
        LET target == local_target(focus.datatype, call.dates[1], focus.n) IN
        /\ Calls("inform_dependencies") = {}
        /\ Calls("create_file") = {}
        /\ Calls("to_netcdf") = {}
        /\ Calls("download_file") = {}
        /\ FileAt(disk, target) = call.before
        /\ IF call.before.exists
           THEN call.kind = "path" /\ call.path = target
           ELSE call.kind = "raise" /\ call.exc = "ValueError"

\* C13 witness: more than two days after the start, get_file returned the
\* path of a MONTHLY_AVG_N artifact that was on disk from the start
C13_witness_old_stats_returned ==
    /\ call.op = "get_file"
    /\ focus.datatype = "MONTHLY_AVG_N"
    /\ clock > StartTime + TwoDays
    /\ call.before.exists
    /\ call.kind = "path"
    /\ call.log = <<Ev("must_update", "MONTHLY_AVG_N", call.dates[1], focus.n, "false", 0, 0)>>

\* the processor of this session depends on a data type that has no parser
\* in the mapping the Downloader was built with
depends_on_unregistered ==
    /\ call.op = "get_file"
    /\ focus.datatype \in ProcessorTypes
    /\ _parsers # InpeParsers
    /\ ~parse_date_fails(call.dates[1])

\* C14 as stated: whenever a processor declares a dependency on a type with
\* no registered parser, get_file for that processor raises, create_file is
\* never called and no artifact is written.
C14_unregistered_dependency_raises ==
    depends_on_unregistered =>
        /\ call.kind = "raise"
        /\ Calls("create_file") = {}
        /\ Calls("to_netcdf") = {}

\* C14 amended: create_file is never called and the file at the local target
\* is left as it was; when must_update asks for the artifact to be
\* (re)computed get_file raises, and when must_update says the artifact on
\* disk is fresh get_file returns its path without looking at the
\* dependencies.
C14_unregistered_dependency_raises_when_stale ==
    depends_on_unregistered =>
        LET target == local_target(focus.datatype, call.dates[1], focus.n) IN
        /\ Calls("create_file") = {}
        /\ Calls("to_netcdf") = {}
        /\ FileAt(disk, target) = call.before
        /\ MustUpdateSaid("true") \/ MustUpdateSaid("false")
        /\ MustUpdateSaid("true") => call.kind = "raise"
        /\ MustUpdateSaid("false") => call.kind = "path" /\ call.path = target

\* C14 witness: MONTHLY_SP1 built without the parser of MONTHLY_ACCUM_MANUAL:
\* the MONTHLY_ACCUM_YEARLY files were downloaded, then the lookup of the
\* missing parser raised and nothing was created
C14_witness_raised_after_downloads ==
    /\ depends_on_unregistered
    /\ focus.datatype = "MONTHLY_SP1"
    /\ MustUpdateSaid("true")
    /\ Calls("download_file") # {}
    /\ call.kind = "raise"
    /\ call.exc = "ValueError"
    /\ ~call.before.exists

(***************************************************************************)
(* Properties of the write of the artifact (under SpecPW)                  *)
(***************************************************************************)
\* C15 as stated: at every moment the file at local_target is absent, the
\* previous complete artifact or the new complete artifact, and no reader
\* ever finds a partially written artifact there.
C15_persist_is_atomic ==
    /\ pw_target.state \in {"absent", "complete"}
    /\ \A i \in 1..Len(pw_reads) : pw_reads[i].state \in {"absent", "complete"}

(***************************************************************************)
(* Properties of DateProcessor (under SpecDP)                              *)
(***************************************************************************)
\* the month index of a date
month_index(date) == date[1] * 12 + date[2] - 1

\* C16 as stated: start_end_dates returns the first day of the month of the
\* date and, for a past month, its last calendar day; for a date in the
\* current month the last day returned is today.
C16_start_end_dates_capped_at_today ==
    dp_call.op = "start_end_dates" =>
        LET date == dp_call.args[1]
            t == today(dp_now)
        IN /\ dp_call.result[1] = <<date[1], date[2], 1>>
           /\ dp_call.result[2] =
                 IF month_index(date) = month_index(t)
                 THEN t
                 ELSE <<date[1], date[2], monthrange(date[1], date[2])>>

\* C17 as stated: for every frequency and every start and end, dates_range
\* is strictly increasing, begins at start, advances by one frequency step
\* between consecutive entries, contains end when start <= end, is empty when
\* start > end and has exactly one entry when start = end.
C17_dates_range_inclusive ==
    dp_call.op = "dates_range" =>
        LET start_date == dp_call.args[1]
            end_date == dp_call.args[2]
            freq == dp_call.args[3]
            r == dp_call.result
            text(d) == IF freq = "HOURLY" THEN pretty_date(d) ELSE normalize_date(d)
        IN /\ \A i \in 1..(Len(r) - 1) :
                 /\ date_le(r[i], r[i + 1]) /\ r[i] # r[i + 1]
                 /\ r[i + 1] = step_date(r[i], freq)
           /\ ~date_le(start_date, end_date) => r = <<>>
           /\ start_date = end_date => Len(r) = 1
           /\ date_le(start_date, end_date) =>
                 /\ r[1] = text(start_date)
                 /\ \E i \in 1..Len(r) : r[i] = text(end_date)

\* C18: the periods of create_monthly_periods(start, end, step): the first
\* starts at start, each next one starts `step` months after the one before
\* and after its end (no overlap), each spans `step` calendar months (its end
\* is step - 1 months after its start), every period end is <= end, and the
\* list stops before the first period whose end would exceed end: that
\* period is not in the list, not even cut at end.
C18_monthly_periods_fixed_width ==
    dp_call.op = "create_monthly_periods" =>
        LET start_date == dp_call.args[1]
            end_date == dp_call.args[2]
            month_step == dp_call.args[3]
            r == dp_call.result
            following == IF r = <<>> THEN start_date
                         ELSE add_months(r[Len(r)][1], month_step)
        IN /\ r # <<>> => r[1][1] = start_date
           /\ \A i \in 1..Len(r) :
                 /\ month_index(r[i][2]) - month_index(r[i][1]) = month_step - 1
                 /\ date_le(r[i][1], r[i][2])
                 /\ date_le(r[i][2], end_date)
           /\ \A i \in 1..(Len(r) - 1) :
                 /\ r[i + 1][1] = add_months(r[i][1], month_step)
                 /\ month_index(r[i + 1][1]) - month_index(r[i][1]) = month_step
                 /\ ~date_le(r[i + 1][1], r[i][2])
           /\ ~date_le(add_months(following, month_step - 1), end_date)

\* C18 witness: two periods of three months were returned and a third one,
\* which starts before end but would finish after it, was dropped
C18_witness_trailing_period_dropped ==
    /\ dp_call.op = "create_monthly_periods"
    /\ dp_call.args[3] = 3
    /\ Len(dp_call.result) = 2
    /\ date_le(add_months(dp_call.result[2][1], 3), dp_call.args[2])

\* C19: last_n_months(date, n) returns the window that ends at the month of
\* the date and starts n - 1 months earlier, and the monthly dates_range over
\* the two texts of the window has exactly n entries, one for each month of
\* the window in order, the last one in the month of the date, on whatever
\* day of the month the call is made.
C19_last_n_months_has_n_entries ==
    dp_call.op = "last_n_months" =>
        LET date == dp_call.args[1]
            n == dp_call.args[2]
            window == dp_call.result.window
            dates == dp_call.result.dates
        IN /\ window[2] = <<date[1], date[2]>>
           /\ month_index(window[1]) = month_index(date) - (n - 1)
           /\ Len(dates) = n
           /\ \A i \in 1..Len(dates) :
                 month_index(dates[i]) = month_index(date) - (n - i)

\* C19 witness: the call is made on the 31st, the window of four months
\* holds a February, and the four months came out
C19_witness_called_on_the_31st ==
    /\ dp_call.op = "last_n_months"
    /\ today(dp_now)[3] = 31
    /\ dp_call.args = <<<<2023, 3, 30>>, 4>>
    /\ Len(dp_call.result.dates) = 4
    /\ dp_call.result.dates[3] = <<2023, 2, 28>>

(***************************************************************************)
(* Properties of the registry (under Spec)                                 *)
(***************************************************************************)
\* C20 as stated: in a Downloader built with InpeParsers every member of
\* InpeTypes has a parser: whenever a call has looked up the parser of its
\* data type, get_parser finds a parser for every member, by the member and
\* by the member's name, both lookups give the parser of that member, and
\* a name that is not registered gives ValueError.
C20_every_member_is_registered ==
    (call.op # "none" /\ _parsers = InpeParsers) =>
        /\ get_parser(focus.datatype)
        /\ \A t \in InpeTypes :
              /\ get_parser(t)
              /\ get_parser_by_name(name_of(t)) = t
        /\ get_parser_by_name("DAILY_WRF") = "ValueError"

(***************************************************************************)
(* Properties of the artifacts on disk (under Spec)                        *)
(***************************************************************************)
\* the folders of the artifacts of MONTHLY_ACCUM_MANUAL, MONTHLY_SP1 and
\* MONTHLY_SPI
ProcessorFolders == {"MONTHLY_ACCUM_MANUAL", "MONTHLY_SPI1", "MONTHLY_SPI%n"}

\* C21: every file in the folder of MONTHLY_ACCUM_MANUAL, MONTHLY_SP1 or
\* MONTHLY_SPI carries the attributes updated, last_day and days, with a
\* well-formed `updated`; and the artifact a get_file call has just written
\* is not stale at the time of the call.
C21_written_artifacts_carry_attributes ==
    /\ \A p \in DOMAIN disk :
          p.folder \in ProcessorFolders =>
              /\ disk[p].exists /\ disk[p].readable
              /\ AttrNames \subseteq disk[p].attrs
              /\ disk[p].updated.kind = "ok"
    /\ (/\ call.op = "get_file"
        /\ Calls("to_netcdf") # {}
        /\ call.kind = "path") =>
          /\ call.log[Len(call.log)].ev = "to_netcdf"
          /\ AttrNames \subseteq FileAt(disk, call.path).attrs
          /\ ~is_stale(FileAt(disk, call.path), call.dates[1], clock)

\* C21 witness: a MONTHLY_SPI call wrote its artifact and, on the way, the
\* MONTHLY_ACCUM_MANUAL artifact it depends on
C21_witness_spi_and_accum_written ==
    /\ call.op = "get_file"
    /\ focus.datatype = "MONTHLY_SPI"
    /\ call.kind = "path"
    /\ Cardinality(Calls("to_netcdf")) >= 2
    /\ FileAt(disk, call.path).days = NAVal


(***************************************************************************)
(* mergedownloader: StatsCalculator                                        *)
(***************************************************************************)
\* the first year of the cube of calc_monthly_avg_std_n: "2000-01"
StatsStartYear == 2000

\* parser.dates_range(f"{lo}-01", f"{hi}-12") of a monthly parser, the months
\* of the years lo..hi, computed year by year (the day dateutil takes from
\* today is the same in every month as long as it is at most 28)
RECURSIVE cube_dates_range(_, _, _, _)
cube_dates_range(datatype, lo, hi, now) ==
    IF lo > hi THEN <<>>
    ELSE IF lo = hi
    THEN parser_dates_range(datatype, parse_year_month(lo, 1, now),
                            parse_year_month(lo, 12, now))
    ELSE cube_dates_range(datatype, lo, (lo + hi) \div 2, now)
         \o cube_dates_range(datatype, (lo + hi) \div 2 + 1, hi, now)

\* one iteration of the loop of Downloader.create_cube_dates: the file of
\* dates[i] is opened; None is logged and skipped
cube_entry(datatype, dates, i, st, env) ==
    Bind(open_file(datatype, dates[i], 0, env, st.ctx), LAMBDA a :
      IF a.kind = "raise"
      THEN [ctx |-> a.ctx, kind |-> "raise", lst |-> st.lst, exc |-> a.exc]
      ELSE IF a.arr.none
      THEN [ctx |-> a.ctx, kind |-> "list", lst |-> st.lst, exc |-> "-"]
      ELSE [ctx |-> a.ctx, kind |-> "list", lst |-> Append(st.lst, a.arr), exc |-> "-"])

\* the iterations lo..hi of the loop of Downloader.create_cube_dates, run as
\* those of the first half and then those of the second half
RECURSIVE create_cube_dates_loop(_, _, _, _, _, _)
create_cube_dates_loop(datatype, dates, lo, hi, st, env) ==
    IF st.kind = "raise" \/ lo > hi THEN st
    ELSE IF lo = hi THEN cube_entry(datatype, dates, lo, st, env)
    ELSE Bind(create_cube_dates_loop(datatype, dates, lo, (lo + hi) \div 2, st, env),
              LAMBDA half :
                create_cube_dates_loop(datatype, dates, (lo + hi) \div 2 + 1, hi, half, env))

\* Downloader.create_cube_dates: [ctx, kind, lst, exc] with kind "list" (the
\* arrays of the cube) or "raise"; xr.concat raises on an empty list
create_cube_dates(dates, datatype, env, ctx) ==
    Bind(create_cube_dates_loop(datatype, dates, 1, Len(dates),
                                [ctx |-> ctx, kind |-> "list", lst |-> <<>>, exc |-> "-"],
                                env), LAMBDA st :
      IF st.kind = "list" /\ st.lst = <<>>
      THEN [ctx |-> st.ctx, kind |-> "raise", lst |-> <<>>, exc |-> "ValueError"]
      ELSE st)

\* Downloader.create_cube over the months of the years start_year..end_year
create_cube(start_year, end_year, datatype, env, ctx) ==
    IF ~get_parser(datatype)
    THEN [ctx |-> ctx, kind |-> "raise", lst |-> <<>>, exc |-> "ValueError"]
    ELSE Bind(cube_dates_range(datatype, start_year, end_year, env.now), LAMBDA dates :
           create_cube_dates(dates, datatype, env, ctx))

\* the Dataset _save_stats builds from the array: it has the three attributes
stats_dset(now) == [NewArtifact(now, 0, 0) EXCEPT !.last_day = NAVal, !.days = NAVal]

\* the array _save_stats is handed, renamed and with its time dimension: it
\* has no attribute
stats_arr == PlainFile

\* StatsCalculator._save_stats: the attributes are set on dset and the file
\* is written from arr
_save_stats(date, datatype, n, now, ctx) ==
    IF ~get_parser(datatype) \/ local_target_fails(datatype, n)
    THEN Raises(ctx, "ValueError")
    ELSE LET target == local_target(datatype, date, n)
             dset == stats_dset(now)
             arr == stats_arr
         IN Returns([ctx EXCEPT !.store = (target :> arr) @@ @], target)

\* the k-th call of _save_stats in the loop of calc_monthly_avg_std_n: the
\* average and then the deviation of every month; grouped.sel(month=month)
\* raises KeyError for a month the cube has no value of
save_step(k, months, last_year, n, now, st) ==
    LET month == (k + 1) \div 2
        datatype == IF k % 2 = 1 THEN "MONTHLY_AVG_N" ELSE "MONTHLY_STD_N"
    IN IF month \notin months THEN Raises(st.ctx, "KeyError")
       ELSE _save_stats(<<last_year, month, 1>>, datatype, n, now, st.ctx)

\* the calls lo..hi of _save_stats, run as those of the first half and then
\* those of the second half; an exception leaves the loop
RECURSIVE save_loop(_, _, _, _, _, _, _)
save_loop(lo, hi, months, last_year, n, now, st) ==
    IF st.kind = "raise" \/ lo > hi THEN st
    ELSE IF lo = hi THEN save_step(lo, months, last_year, n, now, st)
    ELSE Bind(save_loop(lo, (lo + hi) \div 2, months, last_year, n, now, st), LAMBDA half :
           save_loop((lo + hi) \div 2 + 1, hi, months, last_year, n, now, half))

\* StatsCalculator.calc_monthly_avg_std_n: [ctx, kind, path, exc] with kind
\* "done" or "raise"; the rolling mean over n months leaves no value for the
\* first n - 1 entries of the cube
calc_monthly_avg_std_n(n, env, ctx) ==
    LET last_year == today(env.now)[1] - 1 IN
    Bind(create_cube(StatsStartYear, last_year, "MONTHLY_ACCUM_YEARLY", env, ctx),
         LAMBDA cube :
      IF cube.kind = "raise" THEN Raises(cube.ctx, cube.exc)
      ELSE Bind({cube.lst[i].date[2] : i \in n..Len(cube.lst)}, LAMBDA months :
           Bind(save_loop(1, 24, months, last_year, n, env.now,
                          Returns(cube.ctx, NoPath)), LAMBDA st :
             IF st.kind = "raise" THEN st
             ELSE [ctx |-> st.ctx, kind |-> "done", path |-> NoPath, exc |-> "-"])))

\* the dates a session of the stats specification asks get_file for: for the
\* pre-computed types, months of several years, before and after today
StatsReqDates(datatype) ==
    IF datatype \in StatsTypes
    THEN {<<2022, 12, 1>>, <<2021, 3, 15>>, <<2023, 1, 20>>, <<2024, 7, 31>>}
    ELSE ReqDates(datatype)

\* StatsCalculator(downloader).calc_monthly_avg_std_n(n)
CalcMonthlyAvgStdN ==
    /\ call.op = "none"
    /\ ~stats_done
    /\ \E faults \in FaultSets :
        LET env == [now |-> clock, faults |-> faults] IN
        \E r \in {calc_monthly_avg_std_n(focus.n, env,
                                         [store |-> disk, log |-> <<>>, fetches |-> 0])} :
           /\ disk' = r.ctx.store
           /\ stats_done' = (r.kind = "done")
           /\ call' = CallRecord("calc_monthly_avg_std_n", <<>>, r, NoFile, <<>>, <<>>, FALSE)
           /\ UNCHANGED <<clock, ticks, focus, _parsers>>

\* Downloader.get_file(date, datatype, n=n) of a session that runs the
\* StatsCalculator
GetStatsFile ==
    /\ call.op = "none"
    /\ \E faults \in FaultSets, date \in StatsReqDates(focus.datatype) :
          DoGetFile(date, faults, FALSE)

InitSC ==
    /\ InitFDVars
    /\ InitMAVars
    /\ InitPWVars
    /\ InitDPVars
    /\ InitHFVars
    /\ InitLTVars
    /\ InitFTPVars
    /\ InitTLVars
    /\ focus \in {f \in Sessions : f.datatype \in NeedsN /\ f.n \in ReqN(f.datatype)}
    /\ _parsers = InpeParsers
    /\ stats_done = FALSE
    /\ disk = EmptyStore
    /\ clock = StartTime
    /\ ticks = 0
    /\ call = NoCall

NextSC ==
    \/ CalcMonthlyAvgStdN /\ UNCHANGED <<fd_vars, ma_vars, pw_vars, dp_vars, hf_vars, lt_vars, ftp_vars, tl_vars>>
    \/ GetStatsFile /\ UNCHANGED <<fd_vars, ma_vars, pw_vars, dp_vars, hf_vars, lt_vars, ftp_vars, tl_vars>>
    \/ Return /\ UNCHANGED <<fd_vars, ma_vars, pw_vars, dp_vars, hf_vars, lt_vars, ftp_vars, tl_vars>>
    \/ Tick /\ UNCHANGED <<fd_vars, ma_vars, pw_vars, dp_vars, hf_vars, lt_vars, ftp_vars, tl_vars>>

SpecSC == InitSC /\ [][NextSC]_vars

\* C22: after calc_monthly_avg_std_n(n) has completed, each of the 24 files
\* it wrote carries the attributes `updated` (the time of the write), `days`
\* ("NA") and `last_day` ("NA")
C22_stats_files_carry_attributes ==
    (call.op = "calc_monthly_avg_std_n" /\ call.kind = "done") =>
       \A t \in StatsTypes, m \in 1..12 :
          LET file == FileAt(disk, local_target(t, <<today(clock)[1] - 1, m, 1>>, focus.n))
          IN /\ file.exists
             /\ AttrNames \subseteq file.attrs
             /\ file.updated = Val(clock)
             /\ file.days = NAVal
             /\ file.last_day = NAVal

\* calc_monthly_avg_std_n(n) has completed and its 24 files are on disk
C22_stats_files_written ==
    /\ call.op = "calc_monthly_avg_std_n"
    /\ call.kind = "done"
    /\ \A t \in StatsTypes, m \in 1..12 :
          FileAt(disk, local_target(t, <<today(clock)[1] - 1, m, 1>>, focus.n)).exists

\* C29: once calc_monthly_avg_std_n(n) has completed, get_file for
\* MONTHLY_AVG_N and MONTHLY_STD_N with that n returns, for a date in any
\* month of any year, the path the job wrote for that month and n, and the
\* file is there
C29_stats_found_for_any_year ==
    (stats_done /\ call.op = "get_file" /\ focus.datatype \in StatsTypes) =>
       /\ call.kind = "path"
       /\ call.path = local_target(focus.datatype,
                                   <<today(clock)[1] - 1, call.dates[1][2], 1>>, focus.n)
       /\ FileAt(disk, call.path).exists

\* after the job of 2023 (written for 2022), the deviation of July 2024 or
\* the average of March 2021 has been asked for and found
C29_witness_other_year_found ==
    /\ stats_done
    /\ call.op = "get_file"
    /\ call.kind = "path"
    /\ \/ focus.datatype = "MONTHLY_STD_N" /\ call.dates[1] = <<2024, 7, 31>>
       \/ focus.datatype = "MONTHLY_AVG_N" /\ call.dates[1] = <<2021, 3, 15>>

InitHF ==
    /\ InitFDVars
    /\ InitMAVars
    /\ InitEngVars
    /\ InitPWVars
    /\ InitDPVars
    /\ InitLTVars
    /\ InitFTPVars
    /\ InitTLVars
    /\ hf_mode \in DownloadMode
    /\ hf_tz \in ZoneOffsets
    /\ hf_local \in FirstLocals
    /\ hf_remote = FirstRemote
    /\ hf_now = HttpStartTime
    /\ hf_call = NoCall

NextHF ==
    \/ DownloadHttpFile /\ UNCHANGED <<fd_vars, ma_vars, eng_vars, pw_vars, dp_vars, lt_vars, ftp_vars, tl_vars>>
    \/ DownloadHttpFileAgain /\ UNCHANGED <<fd_vars, ma_vars, eng_vars, pw_vars, dp_vars, lt_vars, ftp_vars, tl_vars>>
    \/ HttpReturn /\ UNCHANGED <<fd_vars, ma_vars, eng_vars, pw_vars, dp_vars, lt_vars, ftp_vars, tl_vars>>
    \/ RemoteModified /\ UNCHANGED <<fd_vars, ma_vars, eng_vars, pw_vars, dp_vars, lt_vars, ftp_vars, tl_vars>>

SpecHF == InitHF /\ [][NextHF]_vars

\* the server answered the request of the call, with or without a
\* Last-Modified header, and the body could be read
HttpAnswered == hf_call.resp \in {"ok", "no_last_modified"}

\* the call wrote the whole remote file to local_path
HttpDownloaded ==
    /\ hf_call.wrote
    /\ hf_local.whole
    /\ hf_local.version = hf_call.remote.version

\* C23: with the local file present, NO_UPDATE makes no request and does not
\* write, UPDATE rewrites the file if and only if the remote Last-Modified
\* time differs from the local modification time, and FORCE always rewrites
\* it; with the local file absent every mode downloads it
C23_download_modes ==
    hf_call.op # "none" =>
       IF ~hf_call.before.exists
       THEN HttpAnswered => HttpDownloaded
       ELSE CASE hf_mode = "NO_UPDATE" ->
                   /\ hf_call.requests = 0
                   /\ ~hf_call.wrote
                   /\ hf_local = hf_call.before
              [] hf_mode = "UPDATE" ->
                   HttpAnswered =>
                      (hf_call.wrote <=>
                          hf_call.remote.last_modified # hf_call.before.mtime)
              [] hf_mode = "FORCE" -> HttpAnswered => HttpDownloaded

\* C24: whenever _download_http_file wrote the local file and returned
\* normally, the modification time of the local file is the Last-Modified
\* time of the remote file, and the call repeated at once in UPDATE mode
\* does not write
C24_mtime_is_last_modified ==
    /\ (hf_call.op # "none" /\ hf_call.wrote /\ hf_call.kind = "return") =>
          hf_local.mtime = hf_call.remote.last_modified
    /\ (hf_call.op # "none" /\ hf_call.repeat /\ hf_mode = "UPDATE"
        /\ hf_call.prev_wrote /\ hf_call.prev_kind = "return") =>
          ~hf_call.wrote

InitLT ==
    /\ InitFDVars
    /\ InitMAVars
    /\ InitEngVars
    /\ InitPWVars
    /\ InitDPVars
    /\ InitHFVars
    /\ InitLTVars
    /\ InitFTPVars
    /\ InitTLVars

NextLT ==
    LocalTarget /\ UNCHANGED <<fd_vars, ma_vars, eng_vars, pw_vars, dp_vars, hf_vars, ftp_vars, tl_vars>>

SpecLT == InitLT /\ [][NextLT]_vars

\* the processors whose artifact is bound to the month of its date
DateBound == {"MONTHLY_ACCUM_MANUAL", "MONTHLY_SP1", "MONTHLY_SPI"}

\* local_target was called twice
TwoTargets == lt_prev.op # "none" /\ lt_last.op # "none"

\* C25 as stated: two requests of distinct data types never have the same
\* local path, and two requests of one date-bound processor that differ in
\* year, month or n never have the same local path
C25_local_paths_injective ==
    TwoTargets =>
       /\ lt_prev.datatype # lt_last.datatype => lt_prev.text # lt_last.text
       /\ (/\ lt_prev.datatype = lt_last.datatype
           /\ lt_prev.datatype \in DateBound
           /\ \/ lt_prev.date[1] # lt_last.date[1]
              \/ lt_prev.date[2] # lt_last.date[2]
              \/ lt_prev.n # lt_last.n)
          => lt_prev.text # lt_last.text

\* C25, amended: two requests of distinct data types never have the same
\* local path, and two requests of one date-bound processor never have the
\* same local path if they differ in year or month or, for MONTHLY_SPI, in n
C25_local_paths_injective_n_of_spi ==
    TwoTargets =>
       /\ lt_prev.datatype # lt_last.datatype => lt_prev.text # lt_last.text
       /\ (/\ lt_prev.datatype = lt_last.datatype
           /\ lt_prev.datatype \in DateBound
           /\ \/ lt_prev.date[1] # lt_last.date[1]
              \/ lt_prev.date[2] # lt_last.date[2]
              \/ lt_prev.datatype = "MONTHLY_SPI" /\ lt_prev.n # lt_last.n)
          => lt_prev.text # lt_last.text

\* MONTHLY_SPI with n = 1 and MONTHLY_SP1 were asked for the same month:
\* the two paths are in the folder MONTHLY_SPI1
C25_witness_spi_1_and_sp1 ==
    /\ TwoTargets
    /\ lt_prev.datatype = "MONTHLY_SPI" /\ lt_prev.n = 1
    /\ lt_last.datatype = "MONTHLY_SP1"
    /\ lt_prev.date = lt_last.date
    /\ lt_prev.text = "MONTHLY_SPI1/SPI_1_2022-12.nc"
    /\ lt_last.text = "MONTHLY_SPI1/SPI1_2022-12.nc"

\* C26: in download_file every failed attempt before the last permitted one
\* that is not an HTTP 404 (EOFError, another HTTP error, any other exception)
\* is followed by the next attempt, and the call never makes more than
\* `retrials` attempts: a call ends on such a failure only at attempt
\* `retrials`
C26_failures_are_retried ==
    /\ Len(fd_hist) <= fd_retrials
    /\ (fd_done /\ fd_hist # <<>>
        /\ fd_hist[Len(fd_hist)] \in {"eof", "httperr", "error"}) =>
          Len(fd_hist) = fd_retrials

\* the downloads of the call that ended with `res`
Downloads(res) == {i \in Calls("download_file") : call.log[i].res = res}

\* C27: when only k of the daily dependencies of MONTHLY_ACCUM_MANUAL resolve
\* (1 <= k < days requested, the others are not found), get_file still
\* writes an artifact, whose `days` attribute is k
C27_partial_month_is_persisted ==
    (/\ MustUpdateSaid("true")
     /\ focus.datatype = "MONTHLY_ACCUM_MANUAL"
     /\ Downloads("raise") = {}
     /\ Downloads("path") # {}
     /\ Downloads("none") # {}) =>
        /\ call.kind = "path"
        /\ FileAt(disk, call.path).exists
        /\ FileAt(disk, call.path).days = Val(Cardinality(Downloads("path")))

\* the downloads of the call, in the order they were made
DownloadLog == SelectSeq(call.log, LAMBDA e : e.ev = "download_file")

\* C28: resolving MONTHLY_ACCUM_MANUAL never asks the provider for a
\* DAILY_RAIN file dated after today; when no download raises, the files
\* asked for are those of the days 1, 2, ... of the month in this order, up
\* to the last day of a past month and up to today in the current month
C28_no_daily_file_after_today ==
    (/\ MustUpdateSaid("true")
     /\ focus.datatype = "MONTHLY_ACCUM_MANUAL"
     /\ get_parser("DAILY_RAIN")
     /\ month_index(call.dates[1]) <= month_index(today(clock))) =>
        LET date == call.dates[1]
            t == today(clock)
            days == IF month_index(date) = month_index(t) THEN t[3]
                    ELSE monthrange(date[1], date[2])
        IN /\ \A i \in 1..Len(DownloadLog) :
                /\ DownloadLog[i].datatype = "DAILY_RAIN"
                /\ date_le(DownloadLog[i].date, t)
                /\ DownloadLog[i].date = <<date[1], date[2], i>>
           /\ Downloads("raise") = {} => Len(DownloadLog) = days

\* the dependency relation: the data types inform_dependencies of `datatype`
\* names for the request (none for a type that is fetched, for a type whose
\* method returns None and for a request the method refuses)
dependency_types(datatype, date, n, now) ==
    IF datatype \notin ProcessorTypes \/ local_target_fails(datatype, n) THEN {}
    ELSE LET r == inform_dependencies(datatype, date, n, now)
         IN IF r.kind = "deps" THEN {r.deps[i].datatype : i \in 1..Len(r.deps)} ELSE {}

\* the number of elements inform_dependencies declares for the request
declared_elements(datatype, date, n, now) ==
    LET r == inform_dependencies(datatype, date, n, now)
        RECURSIVE sum(_)
        sum(i) == IF i > Len(r.deps) THEN 0 ELSE Len(r.deps[i].lst) + sum(i + 1)
    IN IF r.kind = "deps" THEN sum(1) ELSE 0

\* the types a chain of two dependency edges from `datatype` ends in
TwoEdgesFrom(datatype, date, n, now) ==
    UNION {dependency_types(a, date, n, now) :
             a \in dependency_types(datatype, date, n, now)}

\* C30: the dependency relation among the registered types is acyclic, every
\* chain from the type a session asks for ending within two edges in a type
\* that has no dependency; every
\* get_file call ends, and create_file of a processor is called only when
\* every element its inform_dependencies declared has been resolved, the
\* artifact of the request being the last file written before the call returns
C30_dependencies_resolved_before_return ==
    /\ \A t \in {focus.datatype}, date \in ReqDates(focus.datatype), n \in {focus.n} :
          /\ t \notin dependency_types(t, date, n, clock)
          /\ t \notin TwoEdgesFrom(t, date, n, clock)
          /\ \A b \in TwoEdgesFrom(t, date, n, clock) :
                dependency_types(b, date, n, clock) = {}
    /\ call.op = "get_file" =>
          /\ call.kind \in {"path", "none", "raise"}
          /\ \A i \in Calls("create_file") :
                call.log[i].count
                   = declared_elements(call.log[i].datatype, call.log[i].date,
                                       call.log[i].n, clock)
          /\ (call.kind = "path" /\ MustUpdateSaid("true")) =>
                LET last == call.log[Len(call.log)]
                IN /\ last.ev = "to_netcdf"
                   /\ last.datatype = focus.datatype
                   /\ last.date = call.dates[1]

\* MONTHLY_SPI was resolved through two edges: its MONTHLY_ACCUM_MANUAL
\* dependencies were built from their DAILY_RAIN files, and then its own
\* artifact was written
C30_witness_two_edges_resolved ==
    /\ call.op = "get_file"
    /\ focus.datatype = "MONTHLY_SPI"
    /\ call.kind = "path"
    /\ MustUpdateSaid("true")
    /\ \E i \in Calls("create_file") : call.log[i].datatype = "MONTHLY_ACCUM_MANUAL"
    /\ \E i \in Calls("download_file") : call.log[i].datatype = "DAILY_RAIN"
    /\ "DAILY_RAIN" \in TwoEdgesFrom("MONTHLY_SPI", call.dates[1], focus.n, clock)

(***************************************************************************)
(* Properties of Downloader._process_file and _download_file (under Spec)  *)
(***************************************************************************)
\* the events of the call that are steps of the request itself
OwnSteps(ev) ==
    {i \in Calls(ev) : /\ call.log[i].datatype = focus.datatype
                       /\ call.log[i].date = call.dates[1]
                       /\ call.log[i].n = focus.n}

\* what inform_dependencies declared for the request
Declared == inform_dependencies(focus.datatype, call.dates[1], focus.n, clock)
DeclaredKeys == [i \in 1..Len(Declared.deps) |-> Declared.deps[i].datatype]

\* the declared elements, list after list: <<datatype, date, n>>
RECURSIVE declared_from(_)
declared_from(i) ==
    IF i > Len(Declared.deps) THEN <<>>
    ELSE [j \in 1..Len(Declared.deps[i].lst) |->
            <<Declared.deps[i].datatype, Declared.deps[i].lst[j].date,
              Declared.deps[i].lst[j].n>>] \o declared_from(i + 1)

\* the first event of the resolution of every dependency element, in the
\* order of the log: the download of a fetched type, must_update of a processor
ResolutionStarts ==
    LET starts == SelectSeq(call.log, LAMBDA e :
                     /\ \E k \in 1..Len(DeclaredKeys) : DeclaredKeys[k] = e.datatype
                     /\ e.ev = IF e.datatype \in ProcessorTypes THEN "must_update"
                               ELSE "download_file")
    IN [i \in 1..Len(starts) |-> <<starts[i].datatype, starts[i].date, starts[i].n>>]

IsPrefix(s, t) == Len(s) <= Len(t) /\ \A i \in 1..Len(s) : s[i] = t[i]

plain_get_file ==
    /\ call.op = "get_file"
    /\ focus.datatype \in PlainTypes
    /\ get_parser(focus.datatype)
    /\ ~parse_date_fails(call.dates[1])

\* C32: get_file of a type that is fetched calls download_file exactly once,
\* for the remote target and the local folder of the request, calls none of
\* must_update, inform_dependencies and create_file, and gives back what
\* download_file did: its path, its None, or its exception unchanged
C32_plain_type_fetched_once ==
    plain_get_file =>
       /\ Len(call.log) = 1
       /\ call.log[1].ev = "download_file"
       /\ call.log[1].datatype = focus.datatype
       /\ call.log[1].date = call.dates[1]
       /\ call.log[1].res = call.kind
       /\ call.kind = "raise" => call.exc = "ConnectionError"
       /\ call.kind = "path" =>
             /\ call.path = local_target(focus.datatype, call.dates[1], focus.n)
             /\ FileAt(disk, call.path).exists

\* the provider was down for a daily file: the one download_file call raised
\* ConnectionError and get_file raised it
C32_witness_fetch_failed_once ==
    /\ plain_get_file
    /\ focus.datatype = "DAILY_RAIN"
    /\ call.kind = "raise"
    /\ call.exc = "ConnectionError"
    /\ Cardinality(Calls("download_file")) = 1

\* C33: a stale resolve of MONTHLY_SP1 or MONTHLY_SPI for the current month
\* or for a later date raises ValueError at inform_dependencies: no
\* dependency is resolved and no artifact is written
C33_spi_refuses_current_and_future ==
    (/\ MustUpdateSaid("true")
     /\ focus.datatype \in {"MONTHLY_SP1", "MONTHLY_SPI"}
     /\ month_index(call.dates[1]) >= month_index(today(clock))) =>
        /\ call.kind = "raise"
        /\ call.exc = "ValueError"
        /\ Len(call.log) = 2
        /\ call.log[2].ev = "inform_dependencies"
        /\ call.log[2].res = "raise"
        /\ ~FileAt(disk, local_target(focus.datatype, call.dates[1], focus.n)).exists


(***************************************************************************)
(* Properties of FTPUtil and BaseParser.get_file (under SpecFTP)           *)
(***************************************************************************)
InitFTP ==
    /\ InitFDVars
    /\ InitMAVars
    /\ InitEngVars
    /\ InitPWVars
    /\ InitDPVars
    /\ InitHFVars
    /\ InitLTVars
    /\ InitTLVars
    /\ ftp_tz \in ZoneOffsets
    /\ ftp_local \in FtpFirstLocals(ftp_tz)
    /\ ftp_remote = FtpFirstRemote
    /\ ftp_call = NoCall

NextFTP ==
    \/ OpenConnection /\ UNCHANGED <<fd_vars, ma_vars, eng_vars, pw_vars, dp_vars, hf_vars, lt_vars, tl_vars>>
    \/ DownloadFtpFile /\ UNCHANGED <<fd_vars, ma_vars, eng_vars, pw_vars, dp_vars, hf_vars, lt_vars, tl_vars>>
    \/ BaseParserGetFile /\ UNCHANGED <<fd_vars, ma_vars, eng_vars, pw_vars, dp_vars, hf_vars, lt_vars, tl_vars>>
    \/ FtpReturn /\ UNCHANGED <<fd_vars, ma_vars, eng_vars, pw_vars, dp_vars, hf_vars, lt_vars, tl_vars>>
    \/ FtpRemoteModified /\ UNCHANGED <<fd_vars, ma_vars, eng_vars, pw_vars, dp_vars, hf_vars, lt_vars, tl_vars>>

SpecFTP == InitFTP /\ [][NextFTP]_vars

\* the remote file differs from the local file in size or modification time,
\* as the two informations read them
FtpDiffers(local, remote, tz) ==
    \/ get_ftp_file_info(remote).size # get_local_file_info(local, tz).size
    \/ get_ftp_file_info(remote).datetime # get_local_file_info(local, tz).datetime

\* get_file came to its decision: it called download_file or returned the
\* local target
FtpDecided == ftp_call.downloads \/ ftp_call.kind = "return"

\* C34: BaseParser.get_file downloads the file if and only if force_download
\* is set, or the local file is absent, or avoid_update is False and the
\* remote file differs from the local file in size or modification time; with
\* the local file present and the remote file of the same size and time no
\* download is performed
C34_downloads_iff_needed ==
    (ftp_call.op = "get_file" /\ FtpDecided) =>
       (ftp_call.downloads <=>
           \/ ftp_call.force_download
           \/ ~ftp_call.before.exists
           \/ /\ ~ftp_call.avoid_update
              /\ FtpDiffers(ftp_call.before, ftp_remote, ftp_tz))

\* every retrieval the call made failed
FtpAllFailed ==
    /\ ftp_call.attempts = ftp_call.retrials
    /\ ~ftp_call.completed

\* C35: download_ftp_file makes at most `retrials` retrievals and returns a
\* local path only if one of them completed the transfer; when every
\* retrieval fails it raises and does not return the path of an empty or
\* truncated file
C35_path_only_after_completed_transfer ==
    ftp_call.op = "download_ftp_file" =>
       /\ ftp_call.attempts <= ftp_call.retrials
       /\ ftp_call.kind = "return" => (ftp_call.completed /\ ftp_local.whole)
       /\ FtpAllFailed => ftp_call.kind = "raise"

\* the attempts of the call that ended the loop of open_connection: those
\* that succeeded or met a name-resolution error
FtpEnding ==
    {i \in 1..ftp_call.retrials : ftp_call.outcomes[i] \in {"ok", "gaierror"}}

FtpFirstEnding == CHOOSE i \in FtpEnding : \A j \in FtpEnding : i <= j

\* C36: open_connection makes at most `retrials` attempts, returns the
\* connection of the first attempt that succeeds, raises a name-resolution
\* error at once without a further attempt, and raises an exception after
\* `retrials` failed attempts
C36_open_connection_attempts ==
    ftp_call.op = "open_connection" =>
       /\ ftp_call.attempts <= ftp_call.retrials
       /\ IF FtpEnding = {}
          THEN /\ ftp_call.kind = "raise"
               /\ ftp_call.exc = "Exception"
               /\ ftp_call.attempts = ftp_call.retrials
          ELSE /\ ftp_call.attempts = FtpFirstEnding
               /\ ftp_call.outcomes[FtpFirstEnding] = "ok" =>
                     (ftp_call.kind = "return" /\ ftp_call.conn = FtpFirstEnding)
               /\ ftp_call.outcomes[FtpFirstEnding] = "gaierror" =>
                     (ftp_call.kind = "raise" /\ ftp_call.exc = "gaierror")

\* a call with three attempts allowed whose first attempt failed and whose
\* second attempt met a name-resolution error, the third being able to succeed
C36_witness_gaierror_at_second_attempt ==
    /\ ftp_call.op = "open_connection"
    /\ ftp_call.retrials = 3
    /\ ftp_call.outcomes = <<"error", "gaierror", "ok">>
    /\ ftp_call.kind = "raise"
    /\ ftp_call.exc = "gaierror"
    /\ ftp_call.attempts = 2


(***************************************************************************)
(* Properties of FileDownloader.download_file over HTTP (under SpecHD)     *)
(***************************************************************************)
NextHD ==
    \/ DownloadFileViaHttp /\ UNCHANGED <<fd_vars, ma_vars, eng_vars, pw_vars, dp_vars, lt_vars, ftp_vars, tl_vars>>
    \/ HttpReturn /\ UNCHANGED <<fd_vars, ma_vars, eng_vars, pw_vars, dp_vars, lt_vars, ftp_vars, tl_vars>>
    \/ RemoteModified /\ UNCHANGED <<fd_vars, ma_vars, eng_vars, pw_vars, dp_vars, lt_vars, ftp_vars, tl_vars>>

SpecHD == InitHF /\ [][NextHD]_vars

\* C37: if download_file returns a path, the file at that path holds the
\* complete content of a transfer that finished successfully or of a file
\* that was there before; a transfer that failed part-way, in this call or an
\* earlier one, never leaves a created or truncated file that a later attempt
\* or a later call returns as a valid download, in any download mode
C37_returned_file_is_complete ==
    (hf_call.op = "download_file" /\ hf_call.kind = "return"
     /\ hf_call.val = "local_path") =>
       /\ hf_local.exists
       /\ hf_local.whole


(***************************************************************************)
(* Properties of the writes of Downloader._process_file (under Spec)       *)
(***************************************************************************)
\* C38: if dependency resolution or create_file raises while a stale
\* processor is being resolved, the artifact stored at local_target before
\* the call (if any) is left as it was, no new artifact is created there,
\* and the call made no write of the artifact
C38_failed_resolution_leaves_target ==
    (MustUpdateSaid("true") /\ call.kind = "raise") =>
       /\ FileAt(disk, local_target(focus.datatype, call.dates[1], focus.n)) = call.before
       /\ \A i \in Calls("to_netcdf") :
             ~(/\ call.log[i].datatype = focus.datatype
               /\ call.log[i].date = call.dates[1])

\* a stale artifact was at local_target and its resolution raised after
\* downloads were made
C38_witness_stale_artifact_kept ==
    /\ MustUpdateSaid("true")
    /\ call.kind = "raise"
    /\ call.before.exists
    /\ Calls("download_file") # {}


(***************************************************************************)
(* Properties of MonthAccumParser.get_file over time (under SpecMA)        *)
(***************************************************************************)
\* the times after t at which the artifact may be asked for again: every ten
\* minutes of the next day, and thirty days later
LaterTimes(t) ==
    {t + 10 * k : k \in 1..MaxWaitSteps} \cup {t + NearbyDays * MinutesPerDay}

\* the month asked for is over at the time of the call
ma_past_month ==
    LET n == DateOfTime(ma_call.now) IN
    ma_date[1] < n.year \/ (ma_date[1] = n.year /\ ma_date[2] < n.month)

\* C39: for a past month and a fixed stored artifact, if get_file judges the
\* artifact stale at time t, it judges it stale at every later time as long
\* as the artifact is not recomputed
C39_staleness_is_monotone ==
    (/\ ma_call.op = "get_file"
     /\ ~ma_call.force
     /\ ma_past_month
     /\ ma_call.before.exists
     /\ ma_call.decision = "update") =>
        \A later \in LaterTimes(ma_call.now) :
            must_update_decision(ma_call.before, ma_date, later, FALSE) = "update"


(***************************************************************************)
(* Termination of the loops of DateProcessor (under SpecTL)                *)
(***************************************************************************)
InitTL ==
    /\ InitFDVars
    /\ InitMAVars
    /\ InitEngVars
    /\ InitPWVars
    /\ InitDPVars
    /\ InitHFVars
    /\ InitLTVars
    /\ InitFTPVars
    /\ InitTLVars

NextTL ==
    \/ CallCreateMonthlyPeriods /\ UNCHANGED <<fd_vars, ma_vars, eng_vars, pw_vars, dp_vars, hf_vars, lt_vars, ftp_vars>>
    \/ CallDatesRange /\ UNCHANGED <<fd_vars, ma_vars, eng_vars, pw_vars, dp_vars, hf_vars, lt_vars, ftp_vars>>
    \/ LoopStep /\ UNCHANGED <<fd_vars, ma_vars, eng_vars, pw_vars, dp_vars, hf_vars, lt_vars, ftp_vars>>
    \/ LoopReturn /\ UNCHANGED <<fd_vars, ma_vars, eng_vars, pw_vars, dp_vars, hf_vars, lt_vars, ftp_vars>>

\* a loop that is running takes its next iteration: the interpreter does not
\* stop in the middle of a call
SpecTL == InitTL /\ [][NextTL]_vars /\ WF_tl_vars(LoopStep)

\* C40: create_monthly_periods terminates for every start, every end and
\* every integer month_step, zero and negative values included, and
\* dates_range terminates for every start, end and frequency: a loop that
\* has been entered is left, by return or by an exception
C40_loops_terminate == (tl_pc = "loop") ~> (tl_pc \in {"returned", "raised"})

=============================================================================
